---------------------------- MODULE Spec2Model ----------------------------
(***************************************************************************)
(* State-machine model of the 2.5D labeling hook (useLabelingTwoFiveD.ts), *)
(* its render-task scheduler (useThreeCanvas.ts) and the vertex-membership *)
(* worker (labelColorWorker).                                              *)
(*                                                                         *)
(* Arithmetic is exact fixed point.  World coordinates are integers; the   *)
(* mesh bounding box is [-2,2] x [-2,2].  Normalized image coordinates are *)
(* integers in units of 1/NormDen, canvas coordinates are integers in      *)
(* units of 1/NormDen display pixel.  The z coordinate of world points is  *)
(* not read by any operation modelled here and is left out.  Canvas        *)
(* pixels and the texture upload flag are not part of the state.           *)
(***************************************************************************)
EXTENDS Integers, Sequences, FiniteSets, TLC

\* ------------------------------------------------------------------ bounds
MaxPoints == 3
MaxLabels == 1
MaxQueue == 2
MaxCalls == 2
MaxReq == 2
MaxHoverTimers == 2
MaxUndoInFlight == 1
MaxMeshReq == 2
MaxModeChanges == 1
MaxOffset == 1
MaxSamplers == 2
MaxCameraPos == 2
MaxCoord == 2
MaxContourLen == 5
MaxNow == 2

\* --------------------------------------------------------- model constants
NormDen == 4
BBoxMin == -2
BBoxMax == 2
MeshScale == 1
MeshWidth == 3
SurfaceDisplayWidth == 1024
MergeThresholdInv == 1000
BaselineColor == 100
FeatureColor == 200
ModeColorStep == 10
\* the position threshold of the camera comparator (0.01), in the unit of cameraPosition
PositionThreshold == 1

Positive == "Positive"
Negative == "Negative"
NONE == "NONE"
AUTO_LABEL == "AUTO_LABEL"

Min(a, b) == IF a < b THEN a ELSE b
Max(a, b) == IF a > b THEN a ELSE b
Clamp(lo, hi, v) == Max(lo, Min(hi, v))

Pt(x, y) == [x |-> x, y |-> y]

\* nullable values: a JavaScript null / undefined is [some |-> FALSE]
Some(v) == [some |-> TRUE, v |-> v]
NoPoint == [some |-> FALSE, v |-> Pt(0, 0)]
NoSeq == [some |-> FALSE, v |-> <<>>]
NoSet == [some |-> FALSE, v |-> {}]
NoHandle == 0
NoPosition == [some |-> FALSE, v |-> 0]

\* the surface points a raycast can return for a click
ClickPoints == {Pt(-1, -1), Pt(1, 0)}
\* the auto-label clicks: a surface point with the polarity of the mouse button
AutoClicks == {[worldPoint |-> Pt(-1, -1), pos |-> Positive], [worldPoint |-> Pt(1, 0), pos |-> Negative]}

\* coordinate calibration (identity, enabled)
DefaultCalibration == [offsetX |-> 0, offsetY |-> 0, scaleX |-> 1, scaleY |-> 1, enabled |-> TRUE]

\* ------------------------------------------------------------------- state
VARIABLES
    meshLoaded,             \* mesh, heightMap, boundingBox, drawingGroup, positionsXY, surfaceCanvas/Context set by onLoadMesh
    originalColors,         \* baseline colour snapshot (NoSeq before load)
    colors,                 \* the mesh's per-vertex colour buffer
    affectedVertices,       \* vertices coloured since the last reset
    showLabel, showMask,    \* hook visibility flags
    labelsVisible,          \* canvas hook visibility flag
    now,                    \* the reading of the millisecond clock (Date.now())
    isDrawing, currentPoints, previewPoints,
    hoveredLabelIndex, isHovering, hoverDisabled,
    hoverTimers,            \* pending 100 ms timeouts that re-enable hover
    labelPoints3D,          \* caller-owned label list
    savedLabelPoints,       \* saved labels handed in by updateRefInParent
    cacheAutoLabel,         \* candidate cache
    isAutoLabeling,
    autoLabelController,    \* current AbortController (its handle) or NoHandle
    aborted,                \* AbortControllers whose signal is aborted
    autoLabelDebounceTimer, \* last debounce timer handle or NoHandle
    timers,                 \* pending debounce timeouts
    inferInFlight,          \* InferApi.autoLabel requests awaiting their response
    undoInFlight,           \* InferApi.undoAutoLabel requests awaiting their response
    autoLabelMarkLines,
    renderQueue, isRendering,
    rafQueue,               \* animation-frame callbacks registered for the next frame
    hasRedrawnThisRAF,
    workerReqId,
    pendingWorkerPromises,  \* reqId -> continuation of the awaiting applyVertexColoringOptimized
    workerMsgs,             \* GET_VERTICES messages whose reply has not been delivered
    callCount,              \* handles given out for timers / controllers / requests
    \* ---- observation of the collaborators (history)
    emitted,                \* the latest onDeleteShape emission
    inferCalls,             \* InferApi.autoLabel calls issued
    finishAutoLabelCalls,   \* number of InferApi.finishAutoLabel calls
    superseded,             \* autoLabel3D calls followed by another call while their timer was pending
    resolvedCalls,          \* autoLabel3D promises that resolved
    callArgs,               \* the arguments of every autoLabel3D call, by handle
    performed,              \* autoLabel3D calls whose performAutoLabel started
    workerResolved,         \* vertex-membership promises resolved, with the reply that resolved them
    click,                  \* labeling state at the latest autoLabel3D call
    \* ---- observation of the render scheduler (history)
    executedTasks,          \* the render tasks executed by the latest animation frame, in execution order
    redrawsInFrame,         \* bodies of redrawAllLabelsOnSurface executed by the latest animation frame
    redrawsSinceFrame,      \* bodies of redrawAllLabelsOnSurface executed since the latest animation frame
    lastToggle,             \* the latest canvas setLabelVisibility call: what it changed and requested
    \* ---- mouse handlers
    lastMouseIntersection,  \* the latest raycast hit (an option)
    pendingHoverRender,     \* _pendingHoverRender
    pendingPreviewRender,   \* _pendingPreviewRender
    lastCall,               \* the latest raycast handler call: what it returned, whether the camera was moving
    \* ---- camera movement detection
    camera,                 \* whether a camera reference is attached
    canvasElement,          \* whether a canvas element is attached
    cameraPosition,         \* the camera's position along one axis, in units of the 0.01 threshold
    lastCameraPosition,     \* the position at the latest sample (an option: null before setup, after dispose)
    isCameraMoving,
    cameraMovementFrameId,  \* the id of the animation-frame request the hook holds (NoHandle for null)
    monitorFrames,          \* the ids of the pending animation-frame requests whose callback is monitor
    coordinateCalibration,  \* the calibration applied between image and canvas coordinates
    modeChange,             \* image-mode changes: how many, the colour update in flight, the 200 ms refresh timer
    coloredLabel,           \* the saved label (1-based, 0 for none) coloured by a direct call that is not yet followed up
    \* ---- useMeshWorker
    worker,                 \* the Worker held by the hook (NoHandle for null)
    isWorkerReady,
    isProcessing,
    currentProgress,
    globalReqId, latestReqId,
    dataResolve, dataReject, \* per request kind: the promise whose resolve / reject is stored (NoHandle for null)
    promises,               \* the state of every request promise, by reqId
    meshWorkerJobs,         \* requests posted to a worker whose final message has not been delivered
    lastDelivered           \* the latest worker message delivered, with latestReqId at its delivery

stVars == <<renderQueue, isRendering, rafQueue, hasRedrawnThisRAF, autoLabelMarkLines,
            colors, affectedVertices, workerReqId, pendingWorkerPromises, workerMsgs, redrawsSinceFrame>>
drawVars == <<isDrawing, currentPoints, previewPoints>>
hoverVars == <<hoveredLabelIndex, isHovering, hoverDisabled, hoverTimers>>
meshVars == <<meshLoaded, originalColors>>
visVars == <<showLabel, showMask, labelsVisible>>
autoVars == <<isAutoLabeling, autoLabelController, aborted, autoLabelDebounceTimer, timers,
              inferInFlight, undoInFlight, callCount>>
listVars == <<labelPoints3D, savedLabelPoints, cacheAutoLabel>>
obsVars == <<emitted, inferCalls, finishAutoLabelCalls, superseded, resolvedCalls, callArgs, performed,
             workerResolved, click>>
meshWorkerVars == <<worker, isWorkerReady, isProcessing, currentProgress, globalReqId, latestReqId,
                    dataResolve, dataReject, promises, meshWorkerJobs, lastDelivered>>
\* the state of the components the labeling operations do not touch
frameVars == <<executedTasks, redrawsInFrame>>
\* the state of the host components and of the calibration
cameraVars == <<camera, cameraPosition, lastCameraPosition, isCameraMoving, cameraMovementFrameId,
                monitorFrames>>
mouseVars == <<lastMouseIntersection, pendingHoverRender, pendingPreviewRender, lastCall>>
hostVars == <<modeChange, coordinateCalibration, canvasElement, cameraVars, mouseVars>>
\* what the mouse handlers leave alone outside the labeling state
restVars == <<meshWorkerVars, frameVars, lastToggle, coloredLabel, modeChange, coordinateCalibration, canvasElement,
              cameraVars>>
otherVars == <<meshWorkerVars, frameVars, lastToggle, coloredLabel, hostVars>>
vars == <<stVars, drawVars, hoverVars, meshVars, visVars, now, autoVars, listVars, obsVars, otherVars>>

\* ------------------------------------------------------ coordinate mapping
ObjSize == (BBoxMax - BBoxMin) * MeshScale
CanvasMax == (SurfaceDisplayWidth - 1) * NormDen

Calibrate(c, offset, scale) ==
    IF coordinateCalibration.enabled THEN (c + offset * NormDen) * scale ELSE c

Decalibrate(c, offset, scale) ==
    IF coordinateCalibration.enabled THEN (c \div scale) - offset * NormDen ELSE c

\* (x + size/2) / size in units of 1/NormDen
Fraction(x, size) == ((2 * x + size) * NormDen) \div (2 * size)

\* the refs the conversions test before they read them: mesh and heightMap are set by
\* onLoadMesh together with the colour snapshot and never cleared; boundingBox and surfaceCanvas
\* are set by onLoadMesh and cleared by dispose
mesh == originalColors.some
heightMap == originalColors.some
boundingBox == meshLoaded
surfaceCanvas == meshLoaded

worldToCanvasCoords(p, returnType) ==
    IF ~mesh \/ ~boundingBox THEN NoPoint
    ELSE LET clampedNormalizedX == Clamp(0, NormDen, Fraction(p.x, ObjSize))
             clampedNormalizedY == Clamp(0, NormDen, NormDen - Fraction(p.y, ObjSize))
         IN  IF returnType = "normalized" THEN Some(Pt(clampedNormalizedX, clampedNormalizedY))
             ELSE IF returnType = "imageCoords"
               THEN IF ~heightMap THEN NoPoint
                    ELSE Some(Pt(Fraction(p.x, BBoxMax - BBoxMin), NormDen - Fraction(p.y, BBoxMax - BBoxMin)))
             ELSE IF ~surfaceCanvas \/ ~camera \/ ~canvasElement THEN NoPoint
             ELSE Some(Pt(Clamp(0, CanvasMax,
                                Calibrate(clampedNormalizedX * (SurfaceDisplayWidth - 1),
                                          coordinateCalibration.offsetX, coordinateCalibration.scaleX)),
                          Clamp(0, CanvasMax,
                                Calibrate(clampedNormalizedY * (SurfaceDisplayWidth - 1),
                                          coordinateCalibration.offsetY, coordinateCalibration.scaleY))))

\* the conversion without the flip of the image y axis
worldPointToImageCoordsUnflipped(pts) ==
    [i \in 1..Len(pts) |->
        LET canvasCoords == worldToCanvasCoords(pts[i], "normalized")
        IN  IF canvasCoords.some THEN Pt(canvasCoords.v.x, NormDen - canvasCoords.v.y) ELSE Pt(0, 0)]

worldPointToImageCoords(pts) ==
    [i \in 1..Len(pts) |->
        LET canvasCoords == worldToCanvasCoords(pts[i], "normalized")
        IN  IF canvasCoords.some THEN canvasCoords.v ELSE Pt(0, 0)]

imageCoordinatesToCanvasCoords(p) ==
    IF ~surfaceCanvas THEN NoPoint
    ELSE Some(Pt(Clamp(0, CanvasMax,
                       Calibrate(p.x * (SurfaceDisplayWidth - 1),
                                 coordinateCalibration.offsetX, coordinateCalibration.scaleX)),
                 Clamp(0, CanvasMax,
                       Calibrate(p.y * (SurfaceDisplayWidth - 1),
                                 coordinateCalibration.offsetY, coordinateCalibration.scaleY))))

\* the inverse conversion without the flip of the y axis
canvasCoordsToWorldUnflipped(c) ==
    IF ~mesh \/ ~boundingBox \/ ~surfaceCanvas THEN NoPoint
    ELSE LET nx == Clamp(0, NormDen,
                         Decalibrate(c.x, coordinateCalibration.offsetX, coordinateCalibration.scaleX)
                           \div (SurfaceDisplayWidth - 1))
             ny == Clamp(0, NormDen,
                         Decalibrate(c.y, coordinateCalibration.offsetY, coordinateCalibration.scaleY)
                           \div (SurfaceDisplayWidth - 1))
         IN  Some(Pt((2 * nx * ObjSize - ObjSize * NormDen) \div (2 * NormDen),
                     (2 * ny * ObjSize - ObjSize * NormDen) \div (2 * NormDen)))

canvasCoordsToWorld(c) ==
    IF ~mesh \/ ~boundingBox \/ ~surfaceCanvas THEN NoPoint
    ELSE LET nx == Clamp(0, NormDen,
                         Decalibrate(c.x, coordinateCalibration.offsetX, coordinateCalibration.scaleX)
                           \div (SurfaceDisplayWidth - 1))
             ny == Clamp(0, NormDen,
                         Decalibrate(c.y, coordinateCalibration.offsetY, coordinateCalibration.scaleY)
                           \div (SurfaceDisplayWidth - 1))
         IN  Some(Pt((2 * nx * ObjSize - ObjSize * NormDen) \div (2 * NormDen),
                     (2 * (NormDen - ny) * ObjSize - ObjSize * NormDen) \div (2 * NormDen)))

\* points.map(imageCoordinatesToCanvasCoords).filter(non-null).map(canvasCoordsToWorld)
WorldPositionsOf(points) ==
    IF ~meshLoaded THEN <<>>
    ELSE [i \in 1..Len(points) |-> canvasCoordsToWorld(imageCoordinatesToCanvasCoords(points[i]).v).v]

\* ---------------------------------------------------------------- geometry
Vertices == 0..(MeshWidth * MeshWidth - 1)
VertexStep == (BBoxMax - BBoxMin) \div (MeshWidth - 1)
\* positionsXY: the (x, y) of every mesh vertex, row-major
positionsXY(v) == Pt(BBoxMin + VertexStep * (v % MeshWidth), BBoxMax - VertexStep * (v \div MeshWidth))

isLeft(xi, yi, xj, yj, xk, yk) == (xj - xi) * (yk - yi) - (xk - xi) * (yj - yi)

\* a contribution that counts the upward crossings only
WindingStepUpwardOnly(p, a, b) ==
    IF a.y <= p.y /\ b.y > p.y /\ isLeft(a.x, a.y, b.x, b.y, p.x, p.y) > 0 THEN 1 ELSE 0

\* contribution of edge (j -> i) to the winding number
WindingStep(p, a, b) ==
    IF a.y <= p.y
      THEN (IF b.y > p.y /\ isLeft(a.x, a.y, b.x, b.y, p.x, p.y) > 0 THEN 1 ELSE 0)
      ELSE (IF b.y <= p.y /\ isLeft(a.x, a.y, b.x, b.y, p.x, p.y) < 0 THEN -1 ELSE 0)

RECURSIVE WindingNumber(_, _, _)
WindingNumber(p, polygon, i) ==
    IF i > Len(polygon) THEN 0
    ELSE WindingStep(p, polygon[i], polygon[IF i = 1 THEN Len(polygon) ELSE i - 1])
         + WindingNumber(p, polygon, i + 1)

\* a test that counts only counter-clockwise turns
isPointInPolygonPositive(p, polygon) == WindingNumber(p, polygon, 1) > 0

isPointInPolygonOptimized(p, polygon) == WindingNumber(p, polygon, 1) # 0

\* the worker's pointInPoly: the same winding-number test over the flat arrays
pointInPoly(p, polygon) == WindingNumber(p, polygon, 1) # 0

InBounds(p, polygon) ==
    /\ \E i \in 1..Len(polygon) : polygon[i].x <= p.x
    /\ \E i \in 1..Len(polygon) : polygon[i].x >= p.x
    /\ \E i \in 1..Len(polygon) : polygon[i].y <= p.y
    /\ \E i \in 1..Len(polygon) : polygon[i].y >= p.y

\* worker: indices of the vertices inside the polygon (bounding-box pre-filter, then winding number)
WorkerVertices(polygon) ==
    {v \in Vertices : InBounds(positionsXY(v), polygon) /\ pointInPoly(positionsXY(v), polygon)}

\* main thread fallback scan
getVerticesInPolygonOptimized(worldPoints) ==
    {v \in Vertices : InBounds(positionsXY(v), worldPoints)
                      /\ isPointInPolygonOptimized(positionsXY(v), worldPoints)}

\* ------------------------------------------------------------------ labels
\* id (a creation timestamp in the code) is not read by any modelled operation; the wall
\* clock is not modelled and a hook-created label gets the offset it adds to the timestamp.
Label(id, points, worldPositions, isSubtract, isAutoLabel) ==
    [id |-> id, points |-> points, worldPositions |-> worldPositions,
     isSubtract |-> isSubtract, isAutoLabel |-> isAutoLabel, vertexCache |-> NoSet]

NoLabel == [some |-> FALSE, v |-> Label(0, <<>>, NoSeq, FALSE, FALSE)]

\* two references to one label object: the same label up to the cache written on it
SameObject(a, b) == [a EXCEPT !.vertexCache = NoSet] = [b EXCEPT !.vertexCache = NoSet]

\* labels the parent can hand to updateRefInParent
LabelA == Label(1, <<Pt(1, 3), Pt(3, 3), Pt(2, 1)>>, Some(<<Pt(-1, -1), Pt(1, -1), Pt(0, 1)>>), FALSE, FALSE)
LabelB == Label(2, <<Pt(0, 4), Pt(4, 4), Pt(4, 0), Pt(0, 0)>>, NoSeq, FALSE, FALSE)
LabelC == Label(3, <<Pt(1, 1), Pt(1, 3), Pt(3, 3)>>, Some(<<Pt(-1, 1), Pt(-1, -1), Pt(1, -1)>>), FALSE, FALSE)
ParentLists == {<<>>, <<LabelA>>, <<LabelA, LabelB>>, <<LabelA, LabelC>>}

\* contour sets the inference service can answer with (normalized points)
Triangle == <<Pt(1, 3), Pt(3, 3), Pt(2, 1)>>
Ragged == <<Pt(0, 4), Pt(0, 4), Pt(4, 4), Pt(4, 0), Pt(0, 4)>>
ContourSets == {<<>>, <<Triangle>>, <<Ragged, Triangle>>}

\* ------------------------------------------------------- colour arithmetic
adjustHexBrightness(c, percent) == Clamp(0, 255, (c * (100 + percent) + 50) \div 100)

getColorToUse(index, highlightIndex) ==
    IF highlightIndex >= 0
      THEN (IF index = highlightIndex THEN adjustHexBrightness(FeatureColor, -10)
                                      ELSE adjustHexBrightness(FeatureColor, -30))
      ELSE FeatureColor

\* targetColor * opacity + originalColor * (1 - opacity), opacity in halves
Blend(target, original, opacity2) == (target * opacity2 + original * (2 - opacity2)) \div 2

\* --------------------------------------- render state threaded through calls
CurSt ==
    [q |-> renderQueue, ir |-> isRendering, raf |-> rafQueue, hr |-> hasRedrawnThisRAF,
     marks |-> autoLabelMarkLines, colors |-> colors, aff |-> affectedVertices,
     wid |-> workerReqId, pend |-> pendingWorkerPromises, msgs |-> workerMsgs,
     ran |-> <<>>, n |-> redrawsSinceFrame]

Commit(st) ==
    /\ renderQueue' = st.q
    /\ isRendering' = st.ir
    /\ rafQueue' = st.raf
    /\ hasRedrawnThisRAF' = st.hr
    /\ autoLabelMarkLines' = st.marks
    /\ colors' = st.colors
    /\ affectedVertices' = st.aff
    /\ workerReqId' = st.wid
    /\ pendingWorkerPromises' = st.pend
    /\ workerMsgs' = st.msgs
    /\ redrawsSinceFrame' = st.n

\* what a redraw reads of the labeling state
CurEnv ==
    [showLabel |-> showLabel, showMask |-> showMask, isAutoLabeling |-> isAutoLabeling,
     saved |-> savedLabelPoints, cache |-> cacheAutoLabel]

RedrawTask == [kind |-> "redraw", worldPoint |-> Pt(0, 0), pos |-> Positive]
MarkTask(worldPoint, pos) == [kind |-> "mark", worldPoint |-> worldPoint, pos |-> pos]
RedrawMarksTask == [kind |-> "redrawMarks", worldPoint |-> Pt(0, 0), pos |-> Positive]

\* a scheduler that registers a callback whenever the queue is not empty
processRenderQueueUnguarded(st) ==
    IF Len(st.q) = 0 THEN st
    ELSE [st EXCEPT !.ir = TRUE, !.raf = Append(@, "processRenderQueue")]

processRenderQueue(st) ==
    IF st.ir \/ Len(st.q) = 0 THEN st
    ELSE [st EXCEPT !.ir = TRUE, !.raf = Append(@, "processRenderQueue")]

addRenderTask(st, task) == processRenderQueue([st EXCEPT !.q = Append(@, task)])

QueueRoom == Len(renderQueue) < MaxQueue

resetAllVertexColors(st) ==
    IF ~meshLoaded \/ ~originalColors.some THEN st
    ELSE IF st.aff = {} THEN st
    ELSE [st EXCEPT !.colors = [v \in Vertices |-> IF v \in st.aff THEN originalColors.v[v] ELSE @[v]],
                    !.aff = {}]

\* a colouring loop whose subtract branch leaves the colours as they are
ColorVerticesKeepingSubtracted(st, indices, isSubtract, index, highlightIndex, colorToUse) ==
    IF indices = {} THEN st
    ELSE LET opacity2 == IF index = highlightIndex THEN 1 ELSE 2
         IN  [st EXCEPT
                !.aff = @ \cup indices,
                !.colors = [v \in Vertices |->
                    IF v \notin indices \/ isSubtract THEN @[v]
                    ELSE IF originalColors.some
                      THEN Blend(colorToUse, originalColors.v[v], opacity2)
                      ELSE colorToUse]]

\* the colouring loop of applyVertexColoringOptimized
ColorVertices(st, indices, isSubtract, index, highlightIndex, colorToUse) ==
    IF indices = {} THEN st
    ELSE LET opacity2 == IF index = highlightIndex THEN 1 ELSE 2
         IN  [st EXCEPT
                !.aff = @ \cup indices,
                !.colors = [v \in Vertices |->
                    IF v \notin indices THEN @[v]
                    ELSE IF isSubtract
                      THEN (IF originalColors.some THEN originalColors.v[v] ELSE @[v])
                      ELSE (IF originalColors.some
                              THEN Blend(colorToUse, originalColors.v[v], opacity2)
                              ELSE colorToUse)]]

\* computeVerticesViaWorker: a new request id, the pending promise, the posted message
computeVerticesViaWorker(st, worldPositions, closure) ==
    [st EXCEPT !.wid = @ + 1,
               !.pend = @ \cup {[closure EXCEPT !.reqId = st.wid + 1]},
               !.msgs = @ \cup {[reqId |-> st.wid + 1, polygon |-> worldPositions]}]

\* applyVertexColoringOptimized up to its await: colours from the cache, or asks the worker
applyVertexColoringOptimized(st, label, isSubtract, index, highlightIndex, colorToUse) ==
    IF ~meshLoaded THEN st
    ELSE IF label.vertexCache.some
      THEN ColorVertices(st, label.vertexCache.v, isSubtract, index, highlightIndex, colorToUse)
      ELSE computeVerticesViaWorker(st, WorldPositionsOf(label.points),
              [reqId |-> 0, label |-> label, polygon |-> WorldPositionsOf(label.points),
               isSubtract |-> isSubtract, index |-> index,
               highlightIndex |-> highlightIndex, colorToUse |-> colorToUse])

RECURSIVE ColorLabels(_, _, _, _)
ColorLabels(st, labels, i, highlightIndex) ==
    IF i > Len(labels) THEN st
    ELSE ColorLabels(applyVertexColoringOptimized(st, labels[i], labels[i].isSubtract, i - 1, highlightIndex,
                                                  getColorToUse(i - 1, highlightIndex)),
                     labels, i + 1, highlightIndex)

\* updateSurfaceTexture: whether the call sets needsUpdate on the surface texture
updateSurfaceTexture(ir, force) == meshLoaded /\ (~ir \/ force)

\* the labels a redraw colours
\* (inferenceResultContours stays empty: updateInferenceResultContours is not modelled)
renderLabelPoints(env) ==
    IF env.showMask THEN <<>>
    ELSE IF env.isAutoLabeling THEN env.saved \o env.cache
    ELSE env.saved

\* redrawAllLabelsOnSurface past the test of _hasRedrawnThisRAF
RedrawBody(st, highlightIndex, env) ==
    LET st1 == [st EXCEPT !.hr = TRUE, !.raf = Append(@, "resetRedrawFlag"), !.n = @ + 1]
    IN  IF ~meshLoaded THEN st1
        ELSE IF ~env.showLabel /\ ~env.showMask THEN resetAllVertexColors(st1)
        ELSE ColorLabels(resetAllVertexColors(st1), renderLabelPoints(env), 1, highlightIndex)

\* a redraw that does not look at the flag
redrawUnconditionally(st, highlightIndex, env) == RedrawBody(st, highlightIndex, env)

redrawAllLabelsOnSurface(st, highlightIndex, env) ==
    IF st.hr THEN st ELSE RedrawBody(st, highlightIndex, env)

RunTask(st0, task, env) ==
    LET st == [st0 EXCEPT !.ran = Append(@, task)]
    IN  IF task.kind = "redraw" THEN redrawAllLabelsOnSurface(st, -1, env)
        ELSE IF task.kind = "mark"
          THEN [st EXCEPT !.marks = Append(@, [worldPoint |-> task.worldPoint, pos |-> task.pos])]
        ELSE st

RECURSIVE RunTasks(_, _, _, _)
RunTasks(st, tasks, i, env) ==
    IF i > Len(tasks) THEN st
    ELSE RunTasks(RunTask(st, tasks[i], env), tasks, i + 1, env)

\* a callback that runs the batch whatever the visibility
RenderQueueCallbackAlways(st, env) ==
    [RunTasks([st EXCEPT !.q = <<>>], st.q, 1, env) EXCEPT !.ir = FALSE]

\* the animation-frame callback registered by processRenderQueue
RenderQueueCallback(st, env) ==
    LET tasks == st.q
        st1 == [st EXCEPT !.q = <<>>]
    IN  IF ~labelsVisible THEN [st1 EXCEPT !.ir = FALSE]
        ELSE [RunTasks(st1, tasks, 1, env) EXCEPT !.ir = FALSE]

\* the animation-frame callback registered by checkHoverOnLabels for label index i
HoverRenderCallbacks == <<"hoverRender0", "hoverRender1", "hoverRender2">>
HoverRenderCallback(labelIndex) == HoverRenderCallbacks[labelIndex + 1]
IsHoverRender(cb) == \E i \in 1..Len(HoverRenderCallbacks) : HoverRenderCallbacks[i] = cb
HoverRenderIndex(cb) == (CHOOSE i \in 1..Len(HoverRenderCallbacks) : HoverRenderCallbacks[i] = cb) - 1

RunCallback(st, cb, env) ==
    IF cb = "processRenderQueue" THEN RenderQueueCallback(st, env)
    ELSE IF cb = "previewRender" THEN redrawAllLabelsOnSurface(st, -1, env)
    ELSE IF IsHoverRender(cb) THEN redrawAllLabelsOnSurface(st, HoverRenderIndex(cb), env)
    ELSE [st EXCEPT !.hr = FALSE]

RECURSIVE RunCallbacks(_, _, _, _)
RunCallbacks(st, cbs, i, env) ==
    IF i > Len(cbs) THEN st
    ELSE RunCallbacks(RunCallback(st, cbs[i], env), cbs, i + 1, env)

\* -------------------------------------------------- camera movement sampler
\* (one coordinate of the position stands for the camera pose: the rotation and the distance
\* are compared in the same way, against their own thresholds)
CurCam ==
    [camera |-> camera, pos |-> cameraPosition, last |-> lastCameraPosition,
     moving |-> isCameraMoving, id |-> cameraMovementFrameId, frames |-> monitorFrames]

CommitCam(cv) ==
    /\ camera' = cv.camera
    /\ cameraPosition' = cv.pos
    /\ lastCameraPosition' = cv.last
    /\ isCameraMoving' = cv.moving
    /\ cameraMovementFrameId' = cv.id
    /\ monitorFrames' = cv.frames

Abs(x) == IF x < 0 THEN -x ELSE x

\* requestAnimationFrame(monitor): the id of the new request (ids no longer pending are reused)
FreshFrameId(frames) == CHOOSE i \in 1..(MaxSamplers + 1) : i \notin frames /\ \A j \in 1..(i - 1) : j \in frames

requestMonitorFrame(cv) ==
    [cv EXCEPT !.frames = @ \cup {FreshFrameId(cv.frames)}, !.id = FreshFrameId(cv.frames)]

cancelAnimationFrame(cv) ==
    IF cv.id # NoHandle THEN [cv EXCEPT !.frames = @ \ {cv.id}, !.id = NoHandle] ELSE cv

\* one run of monitor: compares the pose with the latest sample, then re-registers itself
monitor(cv) ==
    IF ~cv.camera \/ ~cv.last.some THEN requestMonitorFrame(cv)
    ELSE requestMonitorFrame([cv EXCEPT !.moving = Abs(cv.pos - cv.last.v) > PositionThreshold,
                                        !.last = Some(cv.pos)])

\* the callbacks of one animation frame that are monitor
RECURSIVE RunMonitors(_, _)
RunMonitors(cv, k) == IF k = 0 THEN cv ELSE RunMonitors(monitor(cv), k - 1)

\* a setup that leaves the old loop running
StartSamplerKeepingOld(cv) == monitor([cv EXCEPT !.last = Some(cv.pos)])

\* setupCameraMovementDetection
StartSampler(cv) ==
    IF ~cv.camera THEN cv
    ELSE monitor([cancelAnimationFrame(cv) EXCEPT !.last = Some(cv.pos)])

\* ------------------------------------------------------------ useMeshWorker
\* the three requests, named by the stage their progress reports carry
RequestKinds == {"vertices", "textures", "colors"}
CompleteType(kind) ==
    IF kind = "vertices" THEN "MESH_DATA_COMPLETE"
    ELSE IF kind = "textures" THEN "TEXTURES_COMPLETE" ELSE "COLORS_COMPLETE"
KindOfComplete(type) ==
    IF type = "MESH_DATA_COMPLETE" THEN "vertices"
    ELSE IF type = "TEXTURES_COMPLETE" THEN "textures" ELSE "colors"
\* the progress value a PROGRESS message carries
ProgressValues == {50}
NoMessage == [reqId |-> 0, type |-> "", latest |-> 0]

CurMW ==
    [worker |-> worker, ready |-> isWorkerReady, processing |-> isProcessing,
     progress |-> currentProgress, resolve |-> dataResolve, reject |-> dataReject,
     promises |-> promises]

CommitMW(mw) ==
    /\ worker' = mw.worker
    /\ isWorkerReady' = mw.ready
    /\ isProcessing' = mw.processing
    /\ currentProgress' = mw.progress
    /\ dataResolve' = mw.resolve
    /\ dataReject' = mw.reject
    /\ promises' = mw.promises

\* calling a stored resolve / reject: a promise already settled stays as it is
Settle(ps, id, outcome) ==
    IF id # NoHandle /\ ps[id] = "pending" THEN [ps EXCEPT ![id] = outcome] ELSE ps

\* initWorker: new Worker(...) either succeeds (ok) or throws
initWorker(mw, ok) ==
    IF ok THEN [mw EXCEPT !.worker = 1, !.ready = TRUE] ELSE [mw EXCEPT !.ready = FALSE]

terminateWorker(mw) ==
    IF mw.worker = NoHandle THEN mw
    ELSE [mw EXCEPT
            !.worker = NoHandle, !.ready = FALSE, !.processing = FALSE,
            !.promises = [r \in DOMAIN mw.promises |->
                            IF \E k \in RequestKinds : mw.reject[k] = r
                              THEN Settle(mw.promises, r, "rejected")[r] ELSE mw.promises[r]],
            !.resolve = [k \in RequestKinds |-> IF mw.reject[k] # NoHandle THEN NoHandle ELSE mw.resolve[k]],
            !.reject = [k \in RequestKinds |-> NoHandle]]

ensureWorkerReady(mw, ok) ==
    LET mw1 == IF mw.processing THEN initWorker(terminateWorker(mw), ok) ELSE mw
    IN  IF ~mw1.ready THEN initWorker(mw1, ok) ELSE mw1

\* processMeshData / processTextureData / updateColors: the same body up to the stage,
\* the handlers stored and the message type
PostRequest(kind, ok) ==
    /\ globalReqId < MaxMeshReq
    /\ LET mw == ensureWorkerReady(CurMW, ok)
           reqId == globalReqId + 1
       IN  IF mw.worker = NoHandle
             THEN /\ CommitMW(mw)
                  /\ UNCHANGED <<globalReqId, latestReqId, meshWorkerJobs>>
             ELSE /\ CommitMW([mw EXCEPT !.processing = TRUE,
                                         !.progress = [progress |-> 0, stage |-> kind],
                                         !.resolve[kind] = reqId,
                                         !.reject[kind] = reqId,
                                         !.promises = Append(@, "pending")])
                  /\ globalReqId' = reqId
                  /\ latestReqId' = reqId
                  /\ meshWorkerJobs' = meshWorkerJobs \cup {[reqId |-> reqId, kind |-> kind]}
    /\ UNCHANGED <<stVars, drawVars, hoverVars, meshVars, visVars, now, autoVars, listVars, obsVars,
                   frameVars, lastToggle, coloredLabel, hostVars, lastDelivered>>

processMeshData(ok) == PostRequest("vertices", ok)
processTextureData(ok) == PostRequest("textures", ok)
updateColors(ok) == PostRequest("colors", ok)

\* a handler that takes every message for a current one
NeverOutdated(reqId) == FALSE

\* the test worker.onmessage makes first: the message is not of the latest request
IsOutdated(reqId) == reqId # latestReqId

\* worker.onmessage
onmessage(mw, type, reqId, progress, stage) ==
    IF IsOutdated(reqId) THEN mw
    ELSE IF type = "PROGRESS" THEN [mw EXCEPT !.progress = [progress |-> progress, stage |-> stage]]
    ELSE IF type = "ERROR"
      THEN [mw EXCEPT
              !.processing = FALSE,
              !.promises = [r \in DOMAIN mw.promises |->
                              IF \E k \in RequestKinds : mw.reject[k] = r
                                THEN Settle(mw.promises, r, "rejected")[r] ELSE mw.promises[r]],
              !.reject = [k \in RequestKinds |-> NoHandle]]
    ELSE [mw EXCEPT
            !.processing = FALSE,
            !.promises = Settle(@, mw.resolve[KindOfComplete(type)], "resolved"),
            !.resolve[KindOfComplete(type)] = NoHandle]

\* a message of a posted request arrives: a progress report, or the final message
\* (the completion of the request's kind, or ERROR)
workerMessage(job, type) ==
    /\ job \in meshWorkerJobs
    /\ type \in {"PROGRESS", CompleteType(job.kind), "ERROR"}
    /\ \E progress \in ProgressValues : CommitMW(onmessage(CurMW, type, job.reqId, progress, job.kind))
    /\ meshWorkerJobs' = IF type = "PROGRESS" THEN meshWorkerJobs ELSE meshWorkerJobs \ {job}
    /\ lastDelivered' = [reqId |-> job.reqId, type |-> type, latest |-> latestReqId]
    /\ UNCHANGED <<stVars, drawVars, hoverVars, meshVars, visVars, now, autoVars, listVars, obsVars,
                   frameVars, lastToggle, coloredLabel, hostVars, globalReqId, latestReqId>>

\* worker.onerror
workerError ==
    /\ worker # NoHandle
    /\ isWorkerReady' = FALSE
    /\ isProcessing' = FALSE
    /\ UNCHANGED <<stVars, drawVars, hoverVars, meshVars, visVars, now, autoVars, listVars, obsVars,
                   frameVars, lastToggle, coloredLabel, hostVars, worker, currentProgress, globalReqId, latestReqId, dataResolve, dataReject,
                   promises, meshWorkerJobs, lastDelivered>>

resetWorker(ok) ==
    /\ CommitMW(initWorker(terminateWorker(CurMW), ok))
    /\ UNCHANGED <<stVars, drawVars, hoverVars, meshVars, visVars, now, autoVars, listVars, obsVars,
                   frameVars, lastToggle, coloredLabel, hostVars, globalReqId, latestReqId, meshWorkerJobs, lastDelivered>>

\* ---------------------------------------------------------- initial state
NoClick == [id |-> 0, quiet |-> FALSE, cache |-> <<>>, labels |-> <<>>, marks |-> <<>>,
            isAutoLabeling |-> FALSE]

\* the state after construction, but for the record of the latest call
InitState ==
    /\ meshLoaded = FALSE
    /\ originalColors = NoSeq
    /\ colors = [v \in Vertices |-> BaselineColor]
    /\ affectedVertices = {}
    /\ showLabel = FALSE
    /\ showMask = FALSE
    /\ labelsVisible = TRUE
    /\ now = 0
    /\ isDrawing = FALSE
    /\ currentPoints = Some(<<>>)
    /\ previewPoints = <<>>
    /\ hoveredLabelIndex = -1
    /\ isHovering = FALSE
    /\ hoverDisabled = FALSE
    /\ hoverTimers = 0
    /\ labelPoints3D = <<>>
    /\ savedLabelPoints = <<>>
    /\ cacheAutoLabel = <<>>
    /\ isAutoLabeling = FALSE
    /\ autoLabelController = NoHandle
    /\ aborted = {}
    /\ autoLabelDebounceTimer = NoHandle
    /\ timers = {}
    /\ inferInFlight = {}
    /\ undoInFlight = 0
    /\ autoLabelMarkLines = <<>>
    /\ renderQueue = <<>>
    /\ isRendering = FALSE
    /\ rafQueue = <<>>
    /\ hasRedrawnThisRAF = FALSE
    /\ workerReqId = 0
    /\ pendingWorkerPromises = {}
    /\ workerMsgs = {}
    /\ callCount = 0
    /\ emitted = NoLabel
    /\ inferCalls = <<>>
    /\ finishAutoLabelCalls = 0
    /\ superseded = {}
    /\ resolvedCalls = {}
    /\ callArgs = <<>>
    /\ performed = {}
    /\ workerResolved = <<>>
    /\ click = NoClick
    /\ executedTasks = <<>>
    /\ redrawsInFrame = 0
    /\ redrawsSinceFrame = 0
    /\ lastToggle = [changed |-> FALSE, surface |-> FALSE, upload |-> FALSE]
    /\ coloredLabel = 0
    /\ modeChange = [count |-> 0, update |-> FALSE, stage |-> "idle"]
    /\ coordinateCalibration = DefaultCalibration
    /\ lastMouseIntersection = NoPoint
    /\ pendingHoverRender = FALSE
    /\ pendingPreviewRender = FALSE
    /\ camera = FALSE
    /\ canvasElement = FALSE
    /\ cameraPosition = 0
    /\ lastCameraPosition = NoPosition
    /\ isCameraMoving = FALSE
    /\ cameraMovementFrameId = NoHandle
    /\ monitorFrames = {}
    /\ worker = NoHandle
    /\ isWorkerReady = FALSE
    /\ isProcessing = FALSE
    /\ currentProgress = [progress |-> 0, stage |-> "vertices"]
    /\ globalReqId = 0
    /\ latestReqId = 0
    /\ dataResolve = [k \in RequestKinds |-> NoHandle]
    /\ dataReject = [k \in RequestKinds |-> NoHandle]
    /\ promises = <<>>
    /\ meshWorkerJobs = {}
    /\ lastDelivered = NoMessage

Init ==
    /\ InitState
    /\ lastCall = [op |-> "", returned |-> "undefined", moving |-> FALSE]

\* a user operation other than the auto-label click happened: the snapshot is dropped
Disturb == click' = NoClick

\* ------------------------------------------------------------ mesh, frames
\* onLoadMesh with a surface texture ref: snapshots the colours, caches the vertex positions,
\* creates the surface canvas and queues a first redraw
onLoadMesh ==
    /\ ~meshLoaded
    /\ QueueRoom
    /\ meshLoaded' = TRUE
    /\ originalColors' = Some(colors)
    /\ Commit(addRenderTask(CurSt, RedrawTask))
    /\ Disturb
    /\ UNCHANGED <<otherVars, drawVars, hoverVars, visVars, now, autoVars, listVars,
                   emitted, inferCalls, finishAutoLabelCalls, superseded, resolvedCalls, callArgs, performed, workerResolved>>

\* one animation frame: every registered callback runs, in registration order
AnimationFrameCall ==
    /\ rafQueue # <<>> \/ monitorFrames # {}
    /\ CommitCam(RunMonitors([CurCam EXCEPT !.frames = {}], Cardinality(monitorFrames)))
    /\ LET st == RunCallbacks([CurSt EXCEPT !.raf = <<>>, !.n = 0], rafQueue, 1, CurEnv)
       IN  /\ st.wid <= MaxReq
           /\ Commit([st EXCEPT !.n = 0])
           /\ executedTasks' = st.ran
           /\ redrawsInFrame' = st.n
    /\ pendingHoverRender' = (pendingHoverRender /\ \A i \in 1..Len(rafQueue) : ~IsHoverRender(rafQueue[i]))
    /\ pendingPreviewRender' = (pendingPreviewRender /\ \A i \in 1..Len(rafQueue) : rafQueue[i] # "previewRender")
    /\ UNCHANGED <<meshWorkerVars, lastToggle, coloredLabel, modeChange, coordinateCalibration, canvasElement,
                   lastMouseIntersection, drawVars, hoverVars,
                   meshVars, visVars, now, autoVars, listVars, obsVars>>

AnimationFrame == AnimationFrameCall /\ UNCHANGED lastCall

\* canvas hook setLabelVisibility
canvasSetLabelVisibility(visible) == IF labelsVisible = visible THEN labelsVisible ELSE visible

\* canvas hook setLabelVisibility: whether the call requests a texture upload
canvasToggleUploads(visible) ==
    IF labelsVisible = visible THEN FALSE
    ELSE IF ~meshLoaded THEN FALSE
    ELSE updateSurfaceTexture(isRendering, TRUE)

setLabelVisibilityCall(isShowLabel, isShowMask) ==
    /\ showLabel' = isShowLabel
    /\ showMask' = isShowMask
    /\ labelsVisible' = canvasSetLabelVisibility(isShowLabel)
    /\ lastToggle' = [changed |-> labelsVisible # isShowLabel, surface |-> meshLoaded,
                      upload |-> canvasToggleUploads(isShowLabel)]
    /\ LET st == redrawAllLabelsOnSurface(CurSt, -1,
                    [CurEnv EXCEPT !.showLabel = isShowLabel, !.showMask = isShowMask])
       IN  /\ st.wid <= MaxReq
           /\ Commit(st)
    /\ Disturb
    /\ UNCHANGED <<meshWorkerVars, frameVars, coloredLabel, modeChange, coordinateCalibration, canvasElement,
                   cameraVars, lastMouseIntersection, pendingHoverRender, pendingPreviewRender,
                   drawVars, hoverVars, meshVars, now, autoVars, listVars,
                   emitted, inferCalls, finishAutoLabelCalls, superseded, resolvedCalls, callArgs, performed, workerResolved>>

setLabelVisibility(isShowLabel, isShowMask) == setLabelVisibilityCall(isShowLabel, isShowMask) /\ UNCHANGED lastCall

\* ------------------------------------------------------------------ worker
\* a handler that resolves the most recent pending promise whatever the reply's reqId
ResolveLatest(reqId, pend) ==
    IF pend = {} THEN reqId ELSE CHOOSE k \in {c.reqId : c \in pend} : \A c \in pend : c.reqId <= k

\* which pending promise a reply resolves: the one stored under the reply's reqId
ResolveTarget(reqId, pend) == reqId

SetVertexCache(labels, label, indices) ==
    [i \in 1..Len(labels) |->
        IF SameObject(labels[i], label) THEN [labels[i] EXCEPT !.vertexCache = Some(indices)]
        ELSE labels[i]]

\* labelWorker.onmessage, then the continuation of applyVertexColoringOptimized it wakes:
\* VERTICES_READY resolves with the indices, ERROR resolves with an empty array
WorkerReply(m, type) ==
    LET indices == IF type = "VERTICES_READY" THEN WorkerVertices(m.polygon) ELSE {}
        target == ResolveTarget(m.reqId, pendingWorkerPromises)
        woken == {c \in pendingWorkerPromises : c.reqId = target}
    IN  /\ workerMsgs' = workerMsgs \ {m}
        /\ IF woken = {}
             THEN UNCHANGED <<pendingWorkerPromises, savedLabelPoints, cacheAutoLabel,
                              colors, affectedVertices, workerResolved>>
             ELSE LET c == CHOOSE c \in woken : TRUE
                      st == ColorVertices(CurSt, indices, c.isSubtract, c.index, c.highlightIndex, c.colorToUse)
                  IN  /\ pendingWorkerPromises' = pendingWorkerPromises \ {c}
                      /\ savedLabelPoints' = SetVertexCache(savedLabelPoints, c.label, indices)
                      /\ cacheAutoLabel' = SetVertexCache(cacheAutoLabel, c.label, indices)
                      /\ colors' = st.colors
                      /\ affectedVertices' = st.aff
                      /\ workerResolved' = Append(workerResolved,
                            [promise |-> c.reqId, reply |-> m.reqId, type |-> type,
                             indices |-> indices, polygon |-> c.polygon, isSubtract |-> c.isSubtract])
        /\ UNCHANGED <<otherVars, renderQueue, isRendering, rafQueue, hasRedrawnThisRAF, autoLabelMarkLines,
                       workerReqId, redrawsSinceFrame, drawVars, hoverVars, meshVars, visVars, now, autoVars, labelPoints3D,
                       emitted, inferCalls, finishAutoLabelCalls, superseded, resolvedCalls, callArgs, performed, click>>

labelWorkerReply == \E m \in workerMsgs : \E type \in {"VERTICES_READY", "ERROR"} : WorkerReply(m, type)

\* the worker's handler is synchronous: it answers its messages in the order posted
OldestMessage(m) == \A o \in workerMsgs : m.reqId <= o.reqId
labelWorkerAnswersInOrder == \E m \in workerMsgs : OldestMessage(m) /\ WorkerReply(m, "VERTICES_READY")

\* a direct call of the exported applyVertexColoringOptimized on saved label i with the
\* label's own polygon, not subtracting
colorLabel(i) ==
    /\ meshLoaded
    /\ coloredLabel = 0
    /\ i \in 1..Len(savedLabelPoints)
    /\ workerReqId < MaxReq
    /\ Commit(applyVertexColoringOptimized(CurSt, savedLabelPoints[i], FALSE, i - 1, -1, FeatureColor))
    /\ coloredLabel' = i
    /\ Disturb
    /\ UNCHANGED <<meshWorkerVars, frameVars, lastToggle, hostVars, drawVars, hoverVars, meshVars, visVars, now, autoVars,
                   listVars, emitted, inferCalls, finishAutoLabelCalls, superseded, resolvedCalls, callArgs,
                   performed, workerResolved>>

\* the direct call that follows it: the same label and polygon, isSubtract = true
subtractLabel ==
    /\ coloredLabel # 0
    /\ workerReqId < MaxReq
    /\ Commit(applyVertexColoringOptimized(CurSt, savedLabelPoints[coloredLabel], TRUE,
                                           coloredLabel - 1, -1, FeatureColor))
    /\ coloredLabel' = 0
    /\ Disturb
    /\ UNCHANGED <<meshWorkerVars, frameVars, lastToggle, hostVars, drawVars, hoverVars, meshVars, visVars, now, autoVars,
                   listVars, emitted, inferCalls, finishAutoLabelCalls, superseded, resolvedCalls, callArgs,
                   performed, workerResolved>>

\* ------------------------------------------------------------ calibration
\* calibrateCoordinates assigns the four fields and nothing else
calibrateCoordinates(offsetX, offsetY, scaleX, scaleY) ==
    /\ coordinateCalibration' = [coordinateCalibration EXCEPT !.offsetX = offsetX, !.offsetY = offsetY,
                                                              !.scaleX = scaleX, !.scaleY = scaleY]
    /\ UNCHANGED <<meshWorkerVars, frameVars, lastToggle, coloredLabel, modeChange, canvasElement, cameraVars, mouseVars, stVars,
                   drawVars,
                   hoverVars, meshVars, visVars, now, autoVars, listVars, obsVars>>

resetCalibration == calibrateCoordinates(0, 0, 1, 1)

\* ------------------------------------------------------- image-mode change
\* Shift+1/2/3: the viewer asks the mesh worker for the colours of the new mode
\* (handleModeChange -> updateGeometryColors) and the labeling component starts a 200 ms
\* timer that will refresh the baseline and redraw
handleModeChange ==
    /\ meshLoaded
    /\ modeChange.count < MaxModeChanges
    /\ modeChange.stage = "idle"
    /\ ~modeChange.update
    /\ modeChange' = [count |-> modeChange.count + 1, update |-> TRUE, stage |-> "timer"]
    /\ Disturb
    /\ UNCHANGED <<meshWorkerVars, frameVars, lastToggle, coloredLabel, coordinateCalibration, canvasElement, cameraVars, mouseVars, stVars, drawVars,
                   hoverVars, meshVars, visVars, now, autoVars, listVars, emitted, inferCalls, finishAutoLabelCalls, superseded,
                   resolvedCalls, callArgs, performed, workerResolved>>

\* the colours of image mode n
ModeColors(n) == [v \in Vertices |-> BaselineColor + ModeColorStep * n]

\* updateGeometryColors after its await: the colour attribute of the geometry is replaced
updateGeometryColors ==
    /\ modeChange.update
    /\ Commit([CurSt EXCEPT !.colors = ModeColors(modeChange.count)])
    /\ modeChange' = [modeChange EXCEPT !.update = FALSE]
    /\ UNCHANGED <<meshWorkerVars, frameVars, lastToggle, coloredLabel, coordinateCalibration, canvasElement, cameraVars, mouseVars, drawVars,
                   hoverVars, meshVars, visVars, now, autoVars, listVars, obsVars>>

\* the 200 ms timer, first statement: refreshOriginalColors
refreshOriginalColors ==
    /\ modeChange.stage = "timer"
    /\ originalColors' = IF meshLoaded THEN Some(colors) ELSE originalColors
    /\ modeChange' = [modeChange EXCEPT !.stage = "redraw"]
    /\ UNCHANGED <<meshWorkerVars, frameVars, lastToggle, coloredLabel, coordinateCalibration, canvasElement, cameraVars, mouseVars, stVars, drawVars,
                   hoverVars, meshLoaded,
                   visVars, now, autoVars, listVars, obsVars>>

\* the 200 ms timer, second statement: redrawAllLabelsOnSurface()
redrawAfterRefresh ==
    /\ modeChange.stage = "redraw"
    /\ LET st == redrawAllLabelsOnSurface(CurSt, -1, CurEnv)
       IN  /\ st.wid <= MaxReq
           /\ Commit(st)
    /\ modeChange' = [modeChange EXCEPT !.stage = "idle"]
    /\ UNCHANGED <<meshWorkerVars, frameVars, lastToggle, coloredLabel, coordinateCalibration, canvasElement, cameraVars, mouseVars, drawVars,
                   hoverVars, meshVars, visVars, now, autoVars, listVars, obsVars>>

\* ----------------------------------------------------------------- drawing
\* clearHover: the hovered index is dropped; a redraw is queued when a label was hovered
clearHover(st) == IF ~isHovering THEN st ELSE addRenderTask(st, RedrawTask)

startPolygonDrawing ==
    /\ meshLoaded
    /\ isDrawing' = TRUE
    /\ currentPoints' = Some(<<>>)
    /\ previewPoints' = <<>>
    /\ Disturb
    /\ UNCHANGED <<otherVars, stVars, hoverVars, meshVars, visVars, now, autoVars, listVars,
                   emitted, inferCalls, finishAutoLabelCalls, superseded, resolvedCalls, callArgs, performed, workerResolved>>

\* currentPoints.push on a null currentPoints throws: nothing changes
addPointToPolygonCall(worldPoint) ==
    /\ isDrawing
    /\ currentPoints.some
    /\ Len(currentPoints.v) < MaxPoints
    /\ QueueRoom
    /\ currentPoints' = Some(Append(currentPoints.v, worldPoint))
    /\ Commit(addRenderTask(CurSt, RedrawTask))
    /\ Disturb
    /\ UNCHANGED <<restVars, lastMouseIntersection, pendingHoverRender, pendingPreviewRender,
                   isDrawing, previewPoints, hoverVars, meshVars, visVars, now, autoVars, listVars,
                   emitted, inferCalls, finishAutoLabelCalls, superseded, resolvedCalls, callArgs, performed, workerResolved>>

addPointToPolygon(worldPoint) == addPointToPolygonCall(worldPoint) /\ UNCHANGED lastCall

\* the label finishPolygonDrawing builds from the drawn points
NewDrawnLabel(points, isSubtract) ==
    Label(now, worldPointToImageCoords(points), Some(points), isSubtract, FALSE)

\* a cleanup that redraws without emptying the mark list
cleanupMarkLinesKeepMarks(st) == addRenderTask(st, RedrawTask)

\* cleanupMarkLines
cleanupMarkLines(st) == addRenderTask([st EXCEPT !.marks = <<>>], RedrawTask)

\* finishPolygonDrawing, auto-label branch: commit the candidates
FinishAutoLabelCall ==
    /\ isAutoLabeling
    /\ QueueRoom
    /\ Len(labelPoints3D) + Len(cacheAutoLabel) <= MaxLabels + 1
    /\ labelPoints3D' = labelPoints3D \o cacheAutoLabel
    /\ Commit(cleanupMarkLines(CurSt))
    /\ isAutoLabeling' = FALSE
    /\ isDrawing' = FALSE
    /\ finishAutoLabelCalls' = finishAutoLabelCalls + 1
    /\ cacheAutoLabel' = <<>>
    /\ Disturb
    /\ UNCHANGED <<restVars, lastMouseIntersection, pendingHoverRender, pendingPreviewRender, currentPoints, previewPoints, hoverVars, meshVars, visVars, now, savedLabelPoints,
                   autoLabelController, aborted, autoLabelDebounceTimer, timers, inferInFlight,
                   undoInFlight, callCount,
                   emitted, inferCalls, superseded, resolvedCalls, callArgs, performed, workerResolved>>

FinishAutoLabel == FinishAutoLabelCall /\ UNCHANGED lastCall

\* finishPolygonDrawing, drawing branch: at least 3 points close the polygon
FinishDrawingCall(isSubtract) ==
    /\ isDrawing
    /\ currentPoints.some
    /\ Len(currentPoints.v) >= 3
    /\ QueueRoom
    /\ Len(labelPoints3D) < MaxLabels
    /\ hoverTimers < MaxHoverTimers
    /\ labelPoints3D' = Append(labelPoints3D, NewDrawnLabel(currentPoints.v, isSubtract))
    /\ Commit(clearHover(addRenderTask(CurSt, RedrawTask)))
    /\ currentPoints' = Some(<<>>)
    /\ previewPoints' = <<>>
    /\ isDrawing' = FALSE
    /\ hoverDisabled' = TRUE
    /\ hoveredLabelIndex' = -1
    /\ isHovering' = FALSE
    /\ hoverTimers' = hoverTimers + 1
    /\ Disturb
    /\ UNCHANGED <<restVars, lastMouseIntersection, pendingHoverRender, pendingPreviewRender, meshVars, visVars, now, autoVars, savedLabelPoints, cacheAutoLabel,
                   emitted, inferCalls, finishAutoLabelCalls, superseded, resolvedCalls, callArgs, performed, workerResolved>>

FinishDrawing(isSubtract) == FinishDrawingCall(isSubtract) /\ UNCHANGED lastCall

\* an early return that drops the draft
FinishDiscardsCall ==
    /\ ~isDrawing \/ ~currentPoints.some \/ Len(currentPoints.v) < 3
    /\ isDrawing' = FALSE
    /\ currentPoints' = Some(<<>>)
    /\ previewPoints' = <<>>
    /\ Disturb
    /\ UNCHANGED <<restVars, lastMouseIntersection, pendingHoverRender, pendingPreviewRender, stVars,
                   hoverVars, meshVars, visVars, now, autoVars, listVars, emitted, inferCalls,
                   finishAutoLabelCalls, superseded, resolvedCalls, callArgs, performed, workerResolved>>

\* finishPolygonDrawing returns early: not drawing, or fewer than 3 points
\* (reading the length of a null currentPoints throws: nothing changes either)
FinishNothingCall ==
    /\ ~isDrawing \/ ~currentPoints.some \/ Len(currentPoints.v) < 3
    /\ Disturb
    /\ UNCHANGED <<restVars, lastMouseIntersection, pendingHoverRender, pendingPreviewRender, stVars, drawVars, hoverVars, meshVars, visVars, now, autoVars, listVars,
                   emitted, inferCalls, finishAutoLabelCalls, superseded, resolvedCalls, callArgs, performed, workerResolved>>

FinishNothing == FinishNothingCall /\ UNCHANGED lastCall

finishPolygonDrawing(isSubtract, polygonType) ==
    IF isAutoLabeling /\ polygonType = AUTO_LABEL THEN FinishAutoLabel
    ELSE FinishDrawing(isSubtract) \/ FinishNothing

\* the host's finishCurrentDrawing in 2.5D mode: finishPolygonDrawing, then return true
finishCurrentDrawing(isSubtract, polygonType) ==
    /\ IF isAutoLabeling /\ polygonType = AUTO_LABEL THEN FinishAutoLabelCall
       ELSE FinishDrawingCall(isSubtract) \/ FinishNothingCall
    /\ lastCall' = [op |-> "finishCurrentDrawing", returned |-> "true", moving |-> isCameraMoving]

\* the state change of cancelCurrentDrawing, shared with undoLatestShape3D
CancelDrawingEffect ==
    /\ isDrawing' = FALSE
    /\ currentPoints' = Some(<<>>)
    /\ previewPoints' = <<>>
    /\ hoverDisabled' = TRUE
    /\ hoveredLabelIndex' = -1
    /\ isHovering' = FALSE
    /\ Commit(addRenderTask(clearHover(CurSt), RedrawTask))
    /\ hoverTimers' = hoverTimers + 1

cancelCurrentDrawing ==
    /\ isDrawing
    /\ QueueRoom
    /\ hoverTimers < MaxHoverTimers
    /\ CancelDrawingEffect
    /\ Disturb
    /\ UNCHANGED <<otherVars, meshVars, visVars, now, autoVars, listVars,
                   emitted, inferCalls, finishAutoLabelCalls, superseded, resolvedCalls, callArgs, performed, workerResolved>>

\* the 100 ms timeout set by finishPolygonDrawing / cancelCurrentDrawing
hoverTimeout ==
    /\ hoverTimers > 0
    /\ hoverTimers' = hoverTimers - 1
    /\ hoverDisabled' = FALSE
    /\ UNCHANGED <<otherVars, stVars, drawVars, hoveredLabelIndex, isHovering, meshVars, visVars, now, autoVars,
                   listVars, obsVars>>

\* the task clearAllLabels3D queues: clearSurfaceCanvas
ClearSurfaceTask == [kind |-> "clearSurface", worldPoint |-> Pt(0, 0), pos |-> Positive]

\* clearAllLabels3D: clears the hover, empties the saved list, resets the vertex colours and
\* queues the clearing of the surface canvas
clearAllLabels3D ==
    /\ meshLoaded
    /\ Len(renderQueue) + 1 < MaxQueue
    /\ hoveredLabelIndex' = -1
    /\ isHovering' = FALSE
    /\ savedLabelPoints' = <<>>
    /\ Commit(addRenderTask(resetAllVertexColors(clearHover(CurSt)), ClearSurfaceTask))
    /\ lastCall' = [op |-> "clearAllLabels3D", returned |-> "undefined", moving |-> isCameraMoving]
    /\ Disturb
    /\ UNCHANGED <<restVars, lastMouseIntersection, pendingHoverRender, pendingPreviewRender, drawVars,
                   hoverDisabled, hoverTimers, meshVars, visVars, now, autoVars, labelPoints3D, cacheAutoLabel,
                   emitted, inferCalls, finishAutoLabelCalls, superseded, resolvedCalls, callArgs, performed,
                   workerResolved>>

\* updateRefInParent: the saved list becomes the list the parent hands in
updateRefInParent(savedLabelPointsNewVal) ==
    /\ savedLabelPoints' = savedLabelPointsNewVal
    /\ Disturb
    /\ UNCHANGED <<otherVars, stVars, drawVars, hoverVars, meshVars, visVars, now, autoVars, labelPoints3D,
                   cacheAutoLabel,
                   emitted, inferCalls, finishAutoLabelCalls, superseded, resolvedCalls, callArgs, performed, workerResolved>>

\* what undoLatestShape3D makes of the popped label's worldPositions
ReopenedPoints(lastShape) == lastShape.worldPositions

\* an undo that drops the whole draft
UndoWholeDraft ==
    /\ isDrawing
    /\ IF currentPoints.some /\ Len(currentPoints.v) > 0
         THEN /\ QueueRoom
              /\ hoverTimers < MaxHoverTimers
              /\ CancelDrawingEffect
         ELSE UNCHANGED <<stVars, drawVars, hoverVars>>
    /\ Disturb
    /\ UNCHANGED <<otherVars, meshVars, visVars, now, autoVars, listVars,
                   emitted, inferCalls, finishAutoLabelCalls, superseded, resolvedCalls, callArgs, performed, workerResolved>>

\* undoLatestShape3D while drawing: pop the last point, cancel when none is left
UndoPoint ==
    /\ isDrawing
    /\ IF currentPoints.some /\ Len(currentPoints.v) > 0
         THEN IF Len(currentPoints.v) = 1
                THEN /\ QueueRoom
                     /\ hoverTimers < MaxHoverTimers
                     /\ CancelDrawingEffect
                ELSE /\ currentPoints' = Some(SubSeq(currentPoints.v, 1, Len(currentPoints.v) - 1))
                     /\ UNCHANGED <<stVars, isDrawing, previewPoints, hoverVars>>
         ELSE UNCHANGED <<stVars, drawVars, hoverVars>>
    /\ Disturb
    /\ UNCHANGED <<otherVars, meshVars, visVars, now, autoVars, listVars,
                   emitted, inferCalls, finishAutoLabelCalls, superseded, resolvedCalls, callArgs, performed, workerResolved>>

\* undoLatestShape3D while auto-labeling: ask the inference service to undo
UndoAutoLabelRequest ==
    /\ ~isDrawing
    /\ isAutoLabeling
    /\ undoInFlight < MaxUndoInFlight
    /\ undoInFlight' = undoInFlight + 1
    /\ Disturb
    /\ UNCHANGED <<otherVars, stVars, drawVars, hoverVars, meshVars, visVars, now, listVars,
                   isAutoLabeling, autoLabelController, aborted, autoLabelDebounceTimer, timers,
                   inferInFlight, callCount,
                   emitted, inferCalls, finishAutoLabelCalls, superseded, resolvedCalls, callArgs, performed, workerResolved>>

\* undoLatestShape3D otherwise: pop the last saved label and re-open it
UndoSavedLabel ==
    /\ ~isDrawing
    /\ ~isAutoLabeling
    /\ Len(savedLabelPoints) > 0
    /\ LET lastShape == savedLabelPoints[Len(savedLabelPoints)]
       IN  /\ savedLabelPoints' = SubSeq(savedLabelPoints, 1, Len(savedLabelPoints) - 1)
           /\ emitted' = Some(lastShape)
           /\ currentPoints' = ReopenedPoints(lastShape)
           /\ isDrawing' = TRUE
    /\ Disturb
    /\ UNCHANGED <<otherVars, stVars, previewPoints, hoverVars, meshVars, visVars, now, autoVars, labelPoints3D,
                   cacheAutoLabel,
                   inferCalls, finishAutoLabelCalls, superseded, resolvedCalls, callArgs, performed, workerResolved>>

undoLatestShape3D == UndoPoint \/ UndoAutoLabelRequest \/ UndoSavedLabel

\* -------------------------------------------------------------- auto-label
clearTimeout(pending, handle) == {t \in pending : t.id # handle}

\* a debounce step that leaves the pending timer running
DebounceTimersKeepPending(pending, handle, new) == pending \cup {new}

\* the debounce step of autoLabel3D: a timer already pending is cleared before the new one is set
DebounceTimers(pending, handle, new) ==
    (IF handle # NoHandle THEN clearTimeout(pending, handle) ELSE pending) \cup {new}

\* cancelAutoLabel as a state change on (controller, aborted, timer handle, timers)
CancelledController == NoHandle
AbortedAfterCancel == IF autoLabelController # NoHandle THEN aborted \cup {autoLabelController} ELSE aborted
TimersAfterCancel ==
    IF autoLabelDebounceTimer # NoHandle THEN clearTimeout(timers, autoLabelDebounceTimer) ELSE timers

cancelAutoLabel ==
    /\ aborted' = AbortedAfterCancel
    /\ autoLabelController' = CancelledController
    /\ timers' = TimersAfterCancel
    /\ autoLabelDebounceTimer' = NoHandle
    /\ isAutoLabeling' = FALSE
    /\ Disturb
    /\ UNCHANGED <<otherVars, stVars, drawVars, hoverVars, meshVars, visVars, now, listVars,
                   inferInFlight, undoInFlight, callCount,
                   emitted, inferCalls, finishAutoLabelCalls, superseded, resolvedCalls, callArgs, performed, workerResolved>>

\* autoLabel3D: returns when the mesh is missing or a drawing is in progress; cancels a running
\* auto-label; (re)starts the 150 ms debounce timer
AutoLabel3DCall(worldPoint, pos) ==
    /\ meshLoaded
    /\ ~isDrawing
    /\ callCount < MaxCalls
    /\ LET id == callCount + 1
           handle == IF isAutoLabeling THEN NoHandle ELSE autoLabelDebounceTimer
           pending == IF isAutoLabeling THEN TimersAfterCancel ELSE timers
       IN  /\ callCount' = id
           /\ timers' = DebounceTimers(pending, handle, [id |-> id, worldPoint |-> worldPoint, pos |-> pos])
           /\ autoLabelDebounceTimer' = id
           /\ superseded' = superseded \cup {t.id : t \in timers}
           /\ callArgs' = Append(callArgs, [worldPoint |-> worldPoint, pos |-> pos])
           /\ click' = [id |-> id, quiet |-> TRUE, cache |-> cacheAutoLabel, labels |-> labelPoints3D,
                        marks |-> autoLabelMarkLines, isAutoLabeling |-> isAutoLabeling]
    /\ aborted' = IF isAutoLabeling THEN AbortedAfterCancel ELSE aborted
    /\ autoLabelController' = IF isAutoLabeling THEN CancelledController ELSE autoLabelController
    /\ isAutoLabeling' = FALSE

autoLabel3D(worldPoint, pos) ==
    /\ AutoLabel3DCall(worldPoint, pos)
    /\ UNCHANGED <<otherVars, stVars, drawVars, hoverVars, meshVars, visVars, now, listVars,
                   inferInFlight, undoInFlight,
                   emitted, inferCalls, finishAutoLabelCalls, resolvedCalls, performed, workerResolved>>

\* drawMarkOnSurface: the mark is pushed by a queued render task
drawMarkOnSurface(st, worldPoint, pos) ==
    IF ~meshLoaded THEN st
    ELSE IF ~worldToCanvasCoords(worldPoint, "canvas").some THEN st
    ELSE addRenderTask(st, MarkTask(worldPoint, pos))

\* the debounce timer fires: performAutoLabel up to its await
debounceTimerFires(t) ==
    /\ t \in timers
    /\ QueueRoom
    /\ timers' = timers \ {t}
    /\ isAutoLabeling' = TRUE
    /\ performed' = performed \cup {t.id}
    /\ LET imageCoords == worldToCanvasCoords(t.worldPoint, "imageCoords")
       IN  IF ~imageCoords.some
             THEN /\ autoLabelController' = NoHandle
                  /\ resolvedCalls' = resolvedCalls \cup {t.id}
                  /\ UNCHANGED <<stVars, inferInFlight, inferCalls>>
             ELSE /\ autoLabelController' = t.id
                  /\ Commit(drawMarkOnSurface(CurSt, t.worldPoint, t.pos))
                  /\ inferInFlight' = inferInFlight \cup
                        {[id |-> t.id, x |-> imageCoords.v.x, y |-> imageCoords.v.y, pos |-> t.pos]}
                  /\ inferCalls' = Append(inferCalls,
                        [id |-> t.id, x |-> imageCoords.v.x, y |-> imageCoords.v.y, pos |-> t.pos])
                  /\ UNCHANGED resolvedCalls
    /\ UNCHANGED <<otherVars, drawVars, hoverVars, meshVars, visVars, now, listVars, aborted, autoLabelDebounceTimer,
                   undoInFlight, callCount,
                   emitted, finishAutoLabelCalls, superseded, callArgs, workerResolved, click>>

\* the check performAutoLabel / handleAutoLabelResult make after the await: the signal of the
\* controller that is current at that moment
SignalAborted == autoLabelController # NoHandle /\ autoLabelController \in aborted

DistSqAtLeastThreshold(a, b) ==
    ((a.x - b.x) * (a.x - b.x) + (a.y - b.y) * (a.y - b.y)) * MergeThresholdInv * MergeThresholdInv
        >= NormDen * NormDen

RECURSIVE MergeFrom(_, _, _)
MergeFrom(points, i, merged) ==
    IF i > Len(points) THEN merged
    ELSE MergeFrom(points, i + 1,
                   IF DistSqAtLeastThreshold(points[i], merged[Len(merged)])
                     THEN Append(merged, points[i]) ELSE merged)

mergeAdjacentPoints(points) ==
    IF Len(points) < 2 THEN points
    ELSE LET merged == MergeFrom(points, 2, <<points[1]>>)
         IN  IF Len(merged) >= 3 /\ ~DistSqAtLeastThreshold(merged[1], merged[Len(merged)])
               THEN SubSeq(merged, 1, Len(merged) - 1)
               ELSE merged

\* a simplification that never falls back to the contour as returned
ImagePointsOfMerged(contour) == mergeAdjacentPoints(contour)

ImagePointsOf(contour) ==
    LET merged == mergeAdjacentPoints(contour)
    IN  IF Len(merged) < 3 THEN contour ELSE merged

RECURSIVE AllImagePoints(_, _)
AllImagePoints(contours, i) ==
    IF i > Len(contours) THEN <<>>
    ELSE (IF Len(ImagePointsOf(contours[i])) > 2 THEN <<ImagePointsOf(contours[i])>> ELSE <<>>)
         \o AllImagePoints(contours, i + 1)

\* the candidate label handleAutoLabelResult builds for contour i (0-based)
NewAutoLabel(imagePoints, i) ==
    Label(now + i, imagePoints, Some(WorldPositionsOf(imagePoints)), FALSE, TRUE)

NewLabels(contours) ==
    LET all == AllImagePoints(contours, 1)
    IN  [i \in 1..Len(all) |-> NewAutoLabel(all[i], i - 1)]

\* a result handler that also commits the candidates to the caller's list
handleAutoLabelResultCommitting(st, cache, labels, contours) ==
    IF SignalAborted THEN [st |-> st, cache |-> cache, labels |-> labels]
    ELSE [st |-> addRenderTask(st, RedrawTask), cache |-> NewLabels(contours),
          labels |-> labels \o NewLabels(contours)]

\* handleAutoLabelResult: result [st, cache, labels]
handleAutoLabelResult(st, cache, labels, contours) ==
    IF SignalAborted THEN [st |-> st, cache |-> cache, labels |-> labels]
    ELSE [st |-> addRenderTask(st, RedrawTask), cache |-> NewLabels(contours), labels |-> labels]

\* the response of InferApi.autoLabel arrives: the rest of performAutoLabel
inferResponse(r, contours) ==
    /\ r \in inferInFlight
    /\ QueueRoom
    /\ inferInFlight' = inferInFlight \ {r}
    /\ LET res == IF SignalAborted \/ Len(contours) = 0
                    THEN [st |-> CurSt, cache |-> cacheAutoLabel, labels |-> labelPoints3D]
                    ELSE handleAutoLabelResult(CurSt, cacheAutoLabel, labelPoints3D, contours)
       IN  /\ Commit(res.st)
           /\ cacheAutoLabel' = res.cache
           /\ labelPoints3D' = res.labels
    /\ autoLabelController' = NoHandle
    /\ resolvedCalls' = resolvedCalls \cup {r.id}
    /\ UNCHANGED <<otherVars, drawVars, hoverVars, meshVars, visVars, now, savedLabelPoints,
                   isAutoLabeling, aborted, autoLabelDebounceTimer, timers, undoInFlight, callCount,
                   emitted, inferCalls, finishAutoLabelCalls, superseded, callArgs, performed, workerResolved, click>>

\* InferApi.autoLabel rejects: logged, the controller is dropped
inferFailure(r) ==
    /\ r \in inferInFlight
    /\ inferInFlight' = inferInFlight \ {r}
    /\ autoLabelController' = NoHandle
    /\ resolvedCalls' = resolvedCalls \cup {r.id}
    /\ UNCHANGED <<otherVars, stVars, drawVars, hoverVars, meshVars, visVars, now, listVars,
                   isAutoLabeling, aborted, autoLabelDebounceTimer, timers, undoInFlight, callCount,
                   emitted, inferCalls, finishAutoLabelCalls, superseded, callArgs, performed, workerResolved, click>>

\* the response of InferApi.undoAutoLabel arrives
undoResponse(contours) ==
    /\ undoInFlight > 0
    /\ QueueRoom
    /\ undoInFlight' = undoInFlight - 1
    /\ LET popped == IF Len(autoLabelMarkLines) = 0 THEN <<>>
                     ELSE SubSeq(autoLabelMarkLines, 1, Len(autoLabelMarkLines) - 1)
           st1 == addRenderTask([CurSt EXCEPT !.marks = popped], RedrawMarksTask)
           st2 == IF Len(popped) = 0 THEN cleanupMarkLines(st1) ELSE st1
           res == handleAutoLabelResult(st2, cacheAutoLabel, labelPoints3D, contours)
       IN  /\ Commit(res.st)
           /\ cacheAutoLabel' = res.cache
           /\ labelPoints3D' = res.labels
    /\ isAutoLabeling' = IF Len(contours) = 0 THEN FALSE ELSE isAutoLabeling
    /\ UNCHANGED <<otherVars, drawVars, hoverVars, meshVars, visVars, now, savedLabelPoints,
                   autoLabelController, aborted, autoLabelDebounceTimer, timers, inferInFlight, callCount,
                   obsVars>>

\* ------------------------------------------------------------------ mouse
getLabelAtPosition(worldPoint) ==
    LET Hit(label) ==
            IF label.worldPositions.some /\ Len(label.worldPositions.v) > 2
              THEN isPointInPolygonOptimized(worldPoint, label.worldPositions.v)
            ELSE IF Len(label.points) > 2
              THEN LET worldImageCoords == worldToCanvasCoords(worldPoint, "imageCoords")
                   IN  worldImageCoords.some /\ isPointInPolygonOptimized(worldImageCoords.v, label.points)
            ELSE FALSE
        hits == {i \in 1..Len(savedLabelPoints) : Hit(savedLabelPoints[i])}
    IN  IF hits = {} THEN -1 ELSE (CHOOSE i \in hits : \A j \in hits : i <= j) - 1

\* the hover state a mouse handler works on
CurHover ==
    [st |-> CurSt, idx |-> hoveredLabelIndex, hov |-> isHovering, pend |-> pendingHoverRender,
     last |-> lastMouseIntersection]

CommitHover(h) ==
    /\ Commit(h.st)
    /\ hoveredLabelIndex' = h.idx
    /\ isHovering' = h.hov
    /\ pendingHoverRender' = h.pend
    /\ lastMouseIntersection' = h.last

\* clearHover on the hover state
clearHoverState(h) ==
    [h EXCEPT !.st = IF h.hov THEN addRenderTask(@, RedrawTask) ELSE @, !.idx = -1, !.hov = FALSE]

checkHoverOnLabels(h, worldPoint) ==
    IF ~meshLoaded \/ savedLabelPoints = <<>> THEN clearHoverState(h)
    ELSE LET labelIndex == getLabelAtPosition(worldPoint)
         IN  IF labelIndex < 0 THEN clearHoverState(h)
             ELSE IF h.idx = labelIndex \/ h.pend THEN h
             ELSE [h EXCEPT !.pend = TRUE, !.idx = labelIndex, !.hov = TRUE,
                            !.st.raf = Append(@, HoverRenderCallback(labelIndex))]

\* a handler that tests every point against the labels, drawing or not
updateLastMouseIntersectionUngated(h, worldPoint) ==
    checkHoverOnLabels([h EXCEPT !.last = Some(worldPoint)], worldPoint)

updateLastMouseIntersection(h, worldPoint) ==
    IF ~isDrawing /\ ~hoverDisabled THEN checkHoverOnLabels([h EXCEPT !.last = Some(worldPoint)], worldPoint)
    ELSE clearHoverState([h EXCEPT !.last = Some(worldPoint)])

Called(op, value) == [op |-> op, returned |-> value, moving |-> isCameraMoving]

\* handlers that do not look at isCameraMoving
CameraGateOpen == FALSE

\* if (isCameraMoving.value) return
CameraGate == isCameraMoving

\* a raycast that tests none of the refs it reads
performEnhancedRaycastUnguarded(hit) == IF CameraGate THEN NoPoint ELSE hit

\* performEnhancedRaycast: hit is what the ray meets on the mesh (NoPoint for a miss)
performEnhancedRaycast(hit) ==
    IF ~camera \/ ~canvasElement THEN NoPoint
    ELSE IF CameraGate THEN NoPoint
    ELSE IF ~mesh THEN NoPoint
    ELSE hit

\* handleMouseEventWithRaycast: the hover state it leaves and the point it returns
MouseEvent(h, hit) ==
    IF CameraGate THEN [h |-> h, point |-> NoPoint]
    ELSE LET raycastResult == performEnhancedRaycast(hit)
         IN  IF raycastResult.some
               THEN [h |-> updateLastMouseIntersection(h, raycastResult.v), point |-> raycastResult]
               ELSE [h |-> h, point |-> NoPoint]

handleMouseEventWithRaycast(hit) ==
    /\ QueueRoom
    /\ LET m == MouseEvent(CurHover, hit)
       IN  /\ CommitHover(m.h)
           /\ lastCall' = Called("handleMouseEventWithRaycast", IF m.point.some THEN "point" ELSE "null")
    /\ UNCHANGED <<restVars, pendingPreviewRender, hoverDisabled, hoverTimers, drawVars, meshVars, visVars, now,
                   autoVars, listVars, obsVars>>

\* updatePreviewLine past its own updateLastMouseIntersection
PreviewLine(h, worldPoint) ==
    IF ~isDrawing \/ ~currentPoints.some \/ Len(currentPoints.v) = 0
      THEN [h |-> h, preview |-> previewPoints, pend |-> pendingPreviewRender]
    ELSE IF pendingPreviewRender
      THEN [h |-> h, preview |-> <<currentPoints.v[Len(currentPoints.v)], worldPoint>>, pend |-> TRUE]
    ELSE [h |-> [h EXCEPT !.st.raf = Append(@, "previewRender")],
          preview |-> <<currentPoints.v[Len(currentPoints.v)], worldPoint>>, pend |-> TRUE]

updatePreviewLineWithRaycast(hit) ==
    /\ QueueRoom
    /\ LET m == IF CameraGate THEN [h |-> CurHover, point |-> NoPoint] ELSE MouseEvent(CurHover, hit)
           l == IF m.point.some THEN PreviewLine(updateLastMouseIntersection(m.h, m.point.v), m.point.v)
                ELSE [h |-> m.h, preview |-> previewPoints, pend |-> pendingPreviewRender]
       IN  /\ CommitHover(l.h)
           /\ previewPoints' = l.preview
           /\ pendingPreviewRender' = l.pend
    /\ lastCall' = Called("updatePreviewLineWithRaycast", "undefined")
    /\ UNCHANGED <<restVars, hoverDisabled, hoverTimers, isDrawing, currentPoints, meshVars, visVars, now,
                   autoVars, listVars, obsVars>>

\* handleClickWithRaycast stops: the camera moves, or the ray misses
ClickNothing(hit) ==
    /\ CameraGate \/ ~MouseEvent(CurHover, hit).point.some
    /\ lastCall' = Called("handleClickWithRaycast", "false")
    /\ UNCHANGED <<restVars, stVars, lastMouseIntersection, pendingHoverRender, pendingPreviewRender,
                   drawVars, hoverVars, meshVars, visVars, now, autoVars, listVars, obsVars>>

\* polygonType3D is NONE: startPolygonDrawing unless drawing, then addPointToPolygon
ClickDraws(hit) ==
    /\ ~CameraGate
    /\ QueueRoom
    /\ LET m == MouseEvent(CurHover, hit)
           points == IF isDrawing /\ currentPoints.some THEN currentPoints.v ELSE <<>>
       IN  /\ m.point.some
           /\ isDrawing \/ meshLoaded
           /\ isDrawing => currentPoints.some
           /\ Len(points) < MaxPoints
           /\ Len(m.h.st.q) < MaxQueue
           /\ CommitHover([m.h EXCEPT !.st = addRenderTask(@, RedrawTask)])
           /\ isDrawing' = TRUE
           /\ currentPoints' = Some(Append(points, m.point.v))
           /\ previewPoints' = IF isDrawing THEN previewPoints ELSE <<>>
    /\ lastCall' = Called("handleClickWithRaycast", "true")
    /\ Disturb
    /\ UNCHANGED <<restVars, pendingPreviewRender, hoverDisabled, hoverTimers, meshVars, visVars, now, autoVars,
                   listVars, emitted, inferCalls, finishAutoLabelCalls, superseded, resolvedCalls, callArgs,
                   performed, workerResolved>>

\* polygonType3D is AUTO_LABEL, with an image id, while drawing: addPointToPolygon
ClickAddsPoint(hit) ==
    /\ ~CameraGate
    /\ QueueRoom
    /\ isDrawing
    /\ currentPoints.some
    /\ Len(currentPoints.v) < MaxPoints
    /\ LET m == MouseEvent(CurHover, hit)
       IN  /\ m.point.some
           /\ Len(m.h.st.q) < MaxQueue
           /\ CommitHover([m.h EXCEPT !.st = addRenderTask(@, RedrawTask)])
           /\ currentPoints' = Some(Append(currentPoints.v, m.point.v))
    /\ lastCall' = Called("handleClickWithRaycast", "true")
    /\ Disturb
    /\ UNCHANGED <<restVars, pendingPreviewRender, hoverDisabled, hoverTimers, isDrawing, previewPoints,
                   meshVars, visVars, now, autoVars, listVars, emitted, inferCalls, finishAutoLabelCalls,
                   superseded, resolvedCalls, callArgs, performed, workerResolved>>

\* polygonType3D is AUTO_LABEL, with an image id, not drawing: autoLabel3D
ClickAutoLabels(hit, button) ==
    /\ ~CameraGate
    /\ QueueRoom
    /\ LET m == MouseEvent(CurHover, hit)
       IN  /\ m.point.some
           /\ CommitHover(m.h)
           /\ AutoLabel3DCall(m.point.v, IF button = "left" THEN Positive ELSE Negative)
    /\ lastCall' = Called("handleClickWithRaycast", "true")
    /\ UNCHANGED <<restVars, pendingPreviewRender, hoverDisabled, hoverTimers, drawVars, meshVars, visVars, now,
                   listVars, inferInFlight, undoInFlight, emitted, inferCalls, finishAutoLabelCalls,
                   resolvedCalls, performed, workerResolved>>

handleClickWithRaycast(hit, polygonType, button) ==
    \/ ClickNothing(hit)
    \/ polygonType = NONE /\ ClickDraws(hit)
    \/ polygonType = AUTO_LABEL /\ ClickAddsPoint(hit)
    \/ polygonType = AUTO_LABEL /\ ClickAutoLabels(hit, button)

\* a handleRightClick that cancels every drawing, whatever the number of points
RightClickAlwaysCancels(worldPoint) ==
    IF isDrawing
      THEN IF ~currentPoints.some THEN "throws" ELSE "true"
      ELSE IF getLabelAtPosition(worldPoint) >= 0 THEN "true" ELSE "false"

\* handleRightClick on the hover state left by handleMouseEventWithRaycast: what it returns
\* ("throws" when it reads the length of a null currentPoints)
RightClickReturns(worldPoint) ==
    IF isDrawing
      THEN IF ~currentPoints.some THEN "throws"
           ELSE IF Len(currentPoints.v) >= 3 THEN "false" ELSE "true"
      ELSE IF getLabelAtPosition(worldPoint) >= 0 THEN "true" ELSE "false"

\* the host's handle3DInteraction for the right button in manual polygon mode:
\* handleMouseEventWithRaycast, handleRightClick on the point it returns, and
\* finishPolygonDrawing when handleRightClick returns false
handle3DInteractionRight(hit, isSubtract) ==
    LET m == MouseEvent(CurHover, hit)
        h == clearHoverState(m.h)
        handled == RightClickReturns(m.point.v)
        cancels == isDrawing /\ handled = "true"
        closes == isDrawing /\ handled = "false"
        deletes == ~isDrawing /\ handled = "true"
    IN  IF isCameraMoving \/ ~m.point.some
          THEN /\ lastCall' = Called("handle3DInteraction", "undefined")
               /\ UNCHANGED <<restVars, stVars, lastMouseIntersection, pendingHoverRender, pendingPreviewRender,
                              drawVars, hoverVars, meshVars, visVars, now, autoVars, listVars, obsVars>>
          ELSE /\ Len(h.st.q) < MaxQueue
               /\ (cancels \/ closes) => hoverTimers < MaxHoverTimers
               /\ closes => Len(labelPoints3D) < MaxLabels
               /\ CommitHover(IF cancels \/ closes THEN [h EXCEPT !.st = addRenderTask(@, RedrawTask)] ELSE h)
               /\ labelPoints3D' = IF closes THEN Append(labelPoints3D, NewDrawnLabel(currentPoints.v, isSubtract))
                                   ELSE labelPoints3D
               /\ isDrawing' = IF cancels \/ closes THEN FALSE ELSE isDrawing
               /\ currentPoints' = IF cancels \/ closes THEN Some(<<>>) ELSE currentPoints
               /\ previewPoints' = IF cancels \/ closes THEN <<>> ELSE previewPoints
               /\ hoverDisabled' = IF cancels \/ closes THEN TRUE ELSE hoverDisabled
               /\ hoverTimers' = IF cancels \/ closes THEN hoverTimers + 1 ELSE hoverTimers
               /\ emitted' = IF deletes THEN Some(savedLabelPoints[getLabelAtPosition(m.point.v) + 1]) ELSE emitted
               /\ lastCall' = Called("handleRightClick", handled)
               /\ Disturb
               /\ UNCHANGED <<restVars, pendingPreviewRender, meshVars, visVars, now, autoVars, savedLabelPoints,
                              cacheAutoLabel, inferCalls, finishAutoLabelCalls, superseded, resolvedCalls,
                              callArgs, performed, workerResolved>>

\* ----------------------------------------------------------------- camera
SamplerRoom == Cardinality(monitorFrames) < MaxSamplers

setupCameraMovementDetection ==
    /\ SamplerRoom
    /\ CommitCam(StartSampler(CurCam))
    /\ UNCHANGED <<meshWorkerVars, frameVars, lastToggle, coloredLabel, modeChange, coordinateCalibration, canvasElement, mouseVars,
                   stVars, drawVars, hoverVars, meshVars, visVars, now, autoVars, listVars, obsVars>>

setCamera ==
    /\ SamplerRoom
    /\ CommitCam(StartSampler([CurCam EXCEPT !.camera = TRUE]))
    /\ UNCHANGED <<meshWorkerVars, frameVars, lastToggle, coloredLabel, modeChange, coordinateCalibration, canvasElement, mouseVars,
                   stVars, drawVars, hoverVars, meshVars, visVars, now, autoVars, listVars, obsVars>>

\* setCanvasElement: the resize listener it installs changes no state
setCanvasElement(canvas) ==
    /\ canvasElement' = canvas
    /\ UNCHANGED <<meshWorkerVars, frameVars, lastToggle, coloredLabel, modeChange, coordinateCalibration,
                   cameraVars, mouseVars, stVars, drawVars, hoverVars, meshVars, visVars, now, autoVars, listVars,
                   obsVars>>

\* the orbit controls move the camera
moveCamera(pos) ==
    /\ camera
    /\ cameraPosition' = pos
    /\ UNCHANGED <<meshWorkerVars, frameVars, lastToggle, coloredLabel, modeChange, coordinateCalibration, canvasElement, mouseVars,
                   camera, lastCameraPosition, isCameraMoving, cameraMovementFrameId, monitorFrames,
                   stVars, drawVars, hoverVars, meshVars, visVars, now, autoVars, listVars, obsVars>>

\* dispose: hover and drawing state reset, the surface canvas, texture and bounding box and the
\* saved labels dropped (meshLoaded stands for the surface), the sampler canceled
disposeCall ==
    /\ QueueRoom
    /\ Commit(clearHover(CurSt))
    /\ hoveredLabelIndex' = -1
    /\ isHovering' = FALSE
    /\ hoverDisabled' = FALSE
    /\ savedLabelPoints' = <<>>
    /\ currentPoints' = Some(<<>>)
    /\ previewPoints' = <<>>
    /\ isDrawing' = FALSE
    /\ meshLoaded' = FALSE
    /\ canvasElement' = FALSE
    /\ CommitCam([cancelAnimationFrame(CurCam) EXCEPT !.moving = FALSE, !.last = NoPosition])
    /\ Disturb
    /\ UNCHANGED <<meshWorkerVars, frameVars, lastToggle, coloredLabel, modeChange, coordinateCalibration,
                   lastMouseIntersection, pendingHoverRender, pendingPreviewRender,
                   hoverTimers, originalColors, visVars, now, autoVars, labelPoints3D, cacheAutoLabel,
                   emitted, inferCalls, finishAutoLabelCalls, superseded, resolvedCalls, callArgs,
                   performed, workerResolved>>

dispose == disposeCall /\ UNCHANGED lastCall

\* ---------------------------------------------------------- specifications
\* manual drawing: the mesh, the drawing session, the render scheduler
NextDraw ==
    \/ onLoadMesh
    \/ AnimationFrame
    \/ startPolygonDrawing
    \/ \E worldPoint \in ClickPoints : addPointToPolygon(worldPoint)
    \/ \E isSubtract \in {FALSE} : finishPolygonDrawing(isSubtract, NONE)
    \/ cancelCurrentDrawing
    \/ hoverTimeout

SpecDraw == Init /\ [][NextDraw]_vars

\* undo of saved labels: the saved list handed in by the parent, undoLatestShape3D
NextUndo ==
    \/ onLoadMesh
    \/ AnimationFrame
    \/ hoverTimeout
    \/ \E list \in ParentLists : updateRefInParent(list)
    \/ UndoPoint
    \/ UndoSavedLabel

SpecUndo == Init /\ [][NextUndo]_vars

\* an auto-label click up to the answer of the inference service
NextInfer ==
    \/ onLoadMesh
    \/ ~camera /\ setCamera
    \/ ~canvasElement /\ setCanvasElement(TRUE)
    \/ AnimationFrame
    \/ \E c \in AutoClicks : autoLabel3D(c.worldPoint, c.pos)
    \/ \E t \in timers : debounceTimerFires(t)
    \/ \E r \in inferInFlight, contours \in ContourSets : inferResponse(r, contours)
    \/ \E r \in inferInFlight : inferFailure(r)

SpecInfer == Init /\ [][NextInfer]_vars

\* the auto-label cycle with one click and one non-empty answer
OneClick == {[worldPoint |-> Pt(-1, -1), pos |-> Positive]}
CandidateSets == {<<>>, <<Ragged, Triangle>>}

NextCandidates ==
    \/ onLoadMesh
    \/ ~camera /\ setCamera
    \/ ~canvasElement /\ setCanvasElement(TRUE)
    \/ AnimationFrame
    \/ \E c \in OneClick : autoLabel3D(c.worldPoint, c.pos)
    \/ \E t \in timers : debounceTimerFires(t)
    \/ \E r \in inferInFlight, contours \in CandidateSets : inferResponse(r, contours)

\* candidates committed by finishPolygonDrawing
NextCommit ==
    \/ NextCandidates
    \/ \E isSubtract \in {FALSE} : finishPolygonDrawing(isSubtract, AUTO_LABEL)

SpecCommit == Init /\ [][NextCommit]_vars

\* candidates discarded: cancelAutoLabel, cancelCurrentDrawing
NextCancel ==
    \/ NextCandidates
    \/ cancelAutoLabel
    \/ startPolygonDrawing
    \/ cancelCurrentDrawing
    \/ hoverTimeout

SpecCancel == Init /\ [][NextCancel]_vars

\* candidates replaced by a result: the inference answer and the undo answer
NextResult ==
    \/ NextCandidates
    \/ UndoAutoLabelRequest
    \/ \E contours \in CandidateSets : undoResponse(contours)

SpecResult == Init /\ [][NextResult]_vars

\* vertex colouring: saved labels, visibility, redraws, the vertex-membership worker
NextColor ==
    \/ onLoadMesh
    \/ AnimationFrame
    \/ \E isShowLabel \in BOOLEAN, isShowMask \in BOOLEAN : setLabelVisibility(isShowLabel, isShowMask)
    \/ \E list \in ParentLists : updateRefInParent(list)
    \/ labelWorkerReply

SpecColor == Init /\ [][NextColor]_vars

\* the render scheduler: queued redraws and marks, direct redraws, visibility toggles
NextRender ==
    \/ onLoadMesh
    \/ ~camera /\ setCamera
    \/ ~canvasElement /\ setCanvasElement(TRUE)
    \/ AnimationFrame
    \/ \E isShowLabel \in BOOLEAN : setLabelVisibility(isShowLabel, FALSE)
    \/ \E c \in AutoClicks : autoLabel3D(c.worldPoint, c.pos)
    \/ \E t \in timers : debounceTimerFires(t)

SpecRender == Init /\ [][NextRender]_vars

\* redraw requests: queued by the drawing session, direct from the visibility toggle
NextRedraw ==
    \/ onLoadMesh
    \/ AnimationFrame
    \/ \E isShowLabel \in BOOLEAN : setLabelVisibility(isShowLabel, FALSE)
    \/ startPolygonDrawing
    \/ \E worldPoint \in ClickPoints : addPointToPolygon(worldPoint)

SpecRedraw == Init /\ [][NextRedraw]_vars

\* direct colouring calls: a label is coloured, then subtract-coloured with nothing in between
\* but the worker's answers
NextSubtract ==
    \/ coloredLabel = 0 /\ onLoadMesh
    \/ coloredLabel = 0 /\ AnimationFrame
    \/ \E list \in ParentLists : coloredLabel = 0 /\ updateRefInParent(list)
    \/ \E i \in 1..Len(savedLabelPoints) : colorLabel(i)
    \/ subtractLabel
    \/ labelWorkerAnswersInOrder

SpecSubtract == Init /\ [][NextSubtract]_vars

\* the mesh worker hook: requests, worker messages, restarts
MessageTypes == {"PROGRESS", "MESH_DATA_COMPLETE", "TEXTURES_COMPLETE", "COLORS_COMPLETE", "ERROR"}

NextMesh ==
    \/ \E ok \in BOOLEAN : processMeshData(ok)
    \/ \E ok \in BOOLEAN : processTextureData(ok)
    \/ \E ok \in BOOLEAN : updateColors(ok)
    \/ \E job \in meshWorkerJobs, type \in MessageTypes : workerMessage(job, type)
    \/ workerError
    \/ \E ok \in BOOLEAN : resetWorker(ok)

SpecMesh == Init /\ [][NextMesh]_vars

\* the final message of a posted request: its completion, or ERROR
lastMessage ==
    \E job \in meshWorkerJobs, type \in MessageTypes \ {"PROGRESS"} : workerMessage(job, type)

\* every request posted to a worker is answered with a final message
SpecMeshAnswered == Init /\ [][NextMesh]_vars /\ WF_vars(lastMessage)

\* the colour baseline: labels coloured and reset, the image mode changed
InTimerCallback == modeChange.stage = "redraw"

NextBaseline ==
    \/ ~InTimerCallback /\ onLoadMesh
    \/ ~InTimerCallback /\ AnimationFrame
    \/ \E isShowLabel \in BOOLEAN : ~InTimerCallback /\ setLabelVisibility(isShowLabel, FALSE)
    \/ \E list \in ParentLists : ~InTimerCallback /\ updateRefInParent(list)
    \/ ~InTimerCallback /\ labelWorkerAnswersInOrder
    \/ handleModeChange
    \/ ~InTimerCallback /\ updateGeometryColors
    \/ refreshOriginalColors
    \/ redrawAfterRefresh

SpecBaseline == Init /\ [][NextBaseline]_vars

\* calibration changes between redraws of cached labels
CalibrationOffsets == 0..MaxOffset

NextCalib ==
    \/ onLoadMesh
    \/ AnimationFrame
    \/ \E isShowLabel \in BOOLEAN : setLabelVisibility(isShowLabel, FALSE)
    \/ \E list \in ParentLists : updateRefInParent(list)
    \/ labelWorkerAnswersInOrder
    \/ \E offsetX \in CalibrationOffsets, offsetY \in CalibrationOffsets :
            calibrateCoordinates(offsetX, offsetY, 1, 1)
    \/ resetCalibration

SpecCalib == Init /\ [][NextCalib]_vars

\* the camera sampler: attached, restarted, disposed, sampled every frame
CameraPositions == 0..MaxCameraPos

NextCamera ==
    \/ setCamera
    \/ setupCameraMovementDetection
    \/ dispose
    \/ \E pos \in CameraPositions : moveCamera(pos)
    \/ AnimationFrame
    \/ onLoadMesh
    \/ \E list \in ParentLists : updateRefInParent(list)

SpecCamera == Init /\ [][NextCamera]_vars

\* hover after a finished or cancelled drawing: the grace timers, the mouse
\* what a ray through the mouse position meets: a point of the mesh inside label A, or nothing
RayHits == {Some(Pt(0, 0)), NoPoint}

NextHover ==
    \/ onLoadMesh
    \/ setCamera
    \/ ~canvasElement /\ setCanvasElement(TRUE)
    \/ AnimationFrame
    \/ updateRefInParent(<<LabelA>>)
    \/ startPolygonDrawing
    \/ \E worldPoint \in ClickPoints : addPointToPolygon(worldPoint)
    \/ finishPolygonDrawing(FALSE, NONE)
    \/ cancelCurrentDrawing
    \/ hoverTimeout
    \/ \E hit \in RayHits : handleMouseEventWithRaycast(hit)

SpecHover == Init /\ [][NextHover]_vars

\* the raycast handlers while the camera moves and while it rests
NextGate ==
    \/ onLoadMesh
    \/ setCamera
    \/ ~canvasElement /\ setCanvasElement(TRUE)
    \/ \E pos \in CameraPositions : moveCamera(pos)
    \/ AnimationFrame
    \/ updateRefInParent(<<LabelA>>)
    \/ \E hit \in RayHits, polygonType \in {NONE, AUTO_LABEL} : handleClickWithRaycast(hit, polygonType, "left")
    \/ \E hit \in RayHits : handleMouseEventWithRaycast(hit)
    \/ \E hit \in RayHits : updatePreviewLineWithRaycast(hit)

SpecGate == Init /\ [][NextGate]_vars

\* disposal while vertex-membership requests are outstanding
NextDispose ==
    \/ onLoadMesh
    \/ AnimationFrame
    \/ \E isShowLabel \in BOOLEAN : setLabelVisibility(isShowLabel, FALSE)
    \/ \E list \in {<<LabelA>>, <<LabelA, LabelB>>} : updateRefInParent(list)
    \/ labelWorkerReply
    \/ dispose

SpecDispose == Init /\ [][NextDispose]_vars

\* closing a manual polygon: the explicit finish call and the right button
NextFinish ==
    \/ onLoadMesh
    \/ ~camera /\ setCamera
    \/ ~canvasElement /\ setCanvasElement(TRUE)
    \/ AnimationFrame
    \/ updateRefInParent(<<LabelA>>)
    \/ startPolygonDrawing
    \/ \E worldPoint \in ClickPoints : addPointToPolygon(worldPoint)
    \/ finishCurrentDrawing(FALSE, NONE)
    \/ \E hit \in RayHits : handle3DInteractionRight(hit, FALSE)
    \/ hoverTimeout

SpecFinish == Init /\ [][NextFinish]_vars

\* the conversions and the raycast before the mesh is loaded, before the camera and the canvas
\* element are attached, and after dispose
NextReady ==
    \/ onLoadMesh
    \/ setCamera
    \/ \E canvas \in BOOLEAN : setCanvasElement(canvas)
    \/ dispose
    \/ \E pos \in CameraPositions : moveCamera(pos)
    \/ AnimationFrame
    \/ \E offsetX \in CalibrationOffsets : calibrateCoordinates(offsetX, 0, 1, 1)

SpecReady == Init /\ [][NextReady]_vars

\* the point-in-polygon test applied to squares and figure-eights: the polygon and the point
\* are drawn at the start, a step applies the test
allButCall == <<restVars, lastMouseIntersection, pendingHoverRender, pendingPreviewRender, stVars, drawVars,
                hoverVars, meshVars, visVars, now, autoVars, listVars, obsVars>>

Coords == (-MaxCoord)..MaxCoord
TestPoints == {Pt(x, y) : x \in (-MaxCoord - 1)..(MaxCoord + 1), y \in (-MaxCoord - 1)..(MaxCoord + 1)}

\* the vertex list ring read from vertex start on, in the given or in the reverse direction
Ring(ring, start, reverse) ==
    [i \in 1..Len(ring) |->
        ring[(((IF reverse THEN start - i ELSE start + i - 2) + 2 * Len(ring)) % Len(ring)) + 1]]

Squares == {[x0 |-> x0, y0 |-> y0, side |-> side] :
                x0 \in Coords, y0 \in Coords, side \in 1..(2 * MaxCoord)}

SquareRing(sq) ==
    <<Pt(sq.x0, sq.y0), Pt(sq.x0 + sq.side, sq.y0), Pt(sq.x0 + sq.side, sq.y0 + sq.side), Pt(sq.x0, sq.y0 + sq.side)>>

SquareQueries ==
    {[op |-> op, returned |-> "pending", moving |-> FALSE, shape |-> "square", of |-> sq, point |-> p,
      polygon |-> Ring(SquareRing(sq), start, reverse)] :
        op \in {"isPointInPolygonOptimized", "pointInPoly"},
        sq \in {q \in Squares : q.x0 + q.side <= MaxCoord /\ q.y0 + q.side <= MaxCoord},
        p \in TestPoints, start \in 1..4, reverse \in BOOLEAN}

\* a figure-eight: two triangular lobes that meet at (cx, cy), side by side or one above the other
Eights == {[cx |-> 0, cy |-> 0, half |-> half, upright |-> upright] : half \in 2..MaxCoord, upright \in BOOLEAN}

EightRing(e) ==
    IF e.upright
      THEN <<Pt(e.cx - e.half, e.cy - e.half), Pt(e.cx + e.half, e.cy + e.half),
             Pt(e.cx - e.half, e.cy + e.half), Pt(e.cx + e.half, e.cy - e.half)>>
      ELSE <<Pt(e.cx - e.half, e.cy - e.half), Pt(e.cx + e.half, e.cy + e.half),
             Pt(e.cx + e.half, e.cy - e.half), Pt(e.cx - e.half, e.cy + e.half)>>

EightQueries ==
    {[op |-> op, returned |-> "pending", moving |-> FALSE, shape |-> "eight", of |-> e, point |-> p,
      polygon |-> Ring(EightRing(e), start, reverse)] :
        op \in {"isPointInPolygonOptimized", "pointInPoly"},
        e \in Eights, p \in TestPoints, start \in 1..4, reverse \in BOOLEAN}

InitPolygon ==
    /\ InitState
    /\ lastCall \in SquareQueries \cup EightQueries

Answer(b) == IF b THEN "true" ELSE "false"

\* getLabelAtPosition / getVerticesInPolygonOptimized test a point
testPointOnMainThread ==
    /\ lastCall.op = "isPointInPolygonOptimized"
    /\ lastCall.returned = "pending"
    /\ lastCall' = [lastCall EXCEPT !.returned = Answer(isPointInPolygonOptimized(lastCall.point, lastCall.polygon))]
    /\ UNCHANGED allButCall

\* the worker tests a point
testPointInWorker ==
    /\ lastCall.op = "pointInPoly"
    /\ lastCall.returned = "pending"
    /\ lastCall' = [lastCall EXCEPT !.returned = Answer(pointInPoly(lastCall.point, lastCall.polygon))]
    /\ UNCHANGED allButCall

NextPolygon ==
    \/ testPointOnMainThread
    \/ testPointInWorker

SpecPolygon == InitPolygon /\ [][NextPolygon]_vars

\* the conversions applied to world points, in every state of readiness and calibration
WorldPoints == {Pt(x, y) : x \in (BBoxMin - 1)..(BBoxMax + 1), y \in (BBoxMin - 1)..(BBoxMax + 1)}

\* canvasCoordsToWorld(c.x, c.y) with c = worldToCanvasCoords(p, 'canvas'): reading c.x throws
\* when c is null
convertThereAndBack(p) ==
    LET c == worldToCanvasCoords(p, "canvas")
    IN  /\ lastCall' = [op |-> "canvasCoordsToWorld", moving |-> isCameraMoving,
                        returned |-> IF c.some THEN "point" ELSE "throws",
                        point |-> p, canvas |-> c,
                        world |-> IF c.some THEN canvasCoordsToWorld(c.v) ELSE NoPoint,
                        loaded |-> mesh /\ boundingBox /\ surfaceCanvas,
                        attached |-> camera /\ canvasElement,
                        calibration |-> coordinateCalibration]
        /\ UNCHANGED allButCall

convertToNormalized(p) ==
    LET c == worldToCanvasCoords(p, "normalized")
    IN  /\ lastCall' = [op |-> "worldToCanvasCoords", moving |-> isCameraMoving,
                        returned |-> IF c.some THEN "point" ELSE "null",
                        point |-> p, canvas |-> c, world |-> NoPoint,
                        loaded |-> mesh /\ boundingBox /\ surfaceCanvas,
                        attached |-> camera /\ canvasElement,
                        calibration |-> coordinateCalibration]
        /\ UNCHANGED allButCall

NextConvert ==
    \/ onLoadMesh
    \/ ~camera /\ setCamera
    \/ ~canvasElement /\ setCanvasElement(TRUE)
    \/ dispose
    \/ \E offsetX \in CalibrationOffsets : calibrateCoordinates(offsetX, 0, 1, 1)
    \/ \E p \in WorldPoints : convertThereAndBack(p)
    \/ \E p \in {q \in WorldPoints : q.x = q.y} : convertToNormalized(p)

SpecConvert == Init /\ [][NextConvert]_vars

\* handleAutoLabelResult applied to contours drawn at the start: every sequence of up to
\* MaxContourLen points over three points of the image, alone or followed by a triangle
ContourPoints == {Pt(0, 0), Pt(NormDen, 0), Pt(0, NormDen)}

RECURSIVE SeqsUpTo(_, _)
SeqsUpTo(S, n) ==
    IF n = 0 THEN {<<>>}
    ELSE LET shorter == SeqsUpTo(S, n - 1)
         IN  shorter \cup {Append(q, x) : q \in {r \in shorter : Len(r) = n - 1}, x \in S}

ContourInputs ==
    {<<c>> : c \in SeqsUpTo(ContourPoints, MaxContourLen)}
        \cup {<<c, Triangle>> : c \in SeqsUpTo(ContourPoints, MaxContourLen)}

InitContours ==
    /\ InitState
    /\ lastCall \in {[op |-> "handleAutoLabelResult", returned |-> "pending", moving |-> FALSE, contours |-> cs] :
                        cs \in ContourInputs}

applyAutoLabelResult ==
    /\ lastCall.op = "handleAutoLabelResult"
    /\ lastCall.returned = "pending"
    /\ QueueRoom
    /\ LET res == handleAutoLabelResult(CurSt, cacheAutoLabel, labelPoints3D, lastCall.contours)
       IN  /\ Commit(res.st)
           /\ cacheAutoLabel' = res.cache
           /\ labelPoints3D' = res.labels
    /\ lastCall' = [lastCall EXCEPT !.returned = "undefined"]
    /\ UNCHANGED <<restVars, lastMouseIntersection, pendingHoverRender, pendingPreviewRender, drawVars,
                   hoverVars, meshVars, visVars, now, autoVars, savedLabelPoints, obsVars>>

NextContours ==
    \/ ~meshLoaded /\ onLoadMesh
    \/ applyAutoLabelResult

SpecContours == InitContours /\ [][NextContours]_vars

\* undo in the middle of a drawing, with saved labels and auto-label candidates around
DraftPoints == {Pt(0, 0), Pt(1, 1)}

NextUndoDraft ==
    \/ onLoadMesh
    \/ ~camera /\ setCamera
    \/ ~canvasElement /\ setCanvasElement(TRUE)
    \/ AnimationFrame
    \/ \E c \in OneClick : ~isDrawing /\ autoLabel3D(c.worldPoint, c.pos)
    \/ \E t \in timers : debounceTimerFires(t)
    \/ \E r \in inferInFlight : inferResponse(r, <<Ragged, Triangle>>)
    \/ ~isDrawing /\ savedLabelPoints = <<>> /\ updateRefInParent(<<LabelA>>)
    \/ timers = {} /\ inferInFlight = {} /\ startPolygonDrawing
    \/ \E worldPoint \in DraftPoints : addPointToPolygon(worldPoint)
    \/ undoLatestShape3D
    \/ hoverTimeout

SpecUndoDraft == Init /\ [][NextUndoDraft]_vars

\* the drawing session: started by a click or by reopening a saved label, ended by finish
\* or cancel, with an auto-label click around
NextSession ==
    \/ onLoadMesh
    \/ AnimationFrame
    \/ \E c \in OneClick : ~isDrawing /\ autoLabel3D(c.worldPoint, c.pos)
    \/ \E t \in timers : debounceTimerFires(t)
    \/ ~isDrawing /\ savedLabelPoints = <<>> /\ updateRefInParent(<<LabelA>>)
    \/ ~isDrawing /\ startPolygonDrawing
    \/ addPointToPolygon(Pt(0, 0))
    \/ \E polygonType \in {NONE, AUTO_LABEL} : finishPolygonDrawing(FALSE, polygonType)
    \/ cancelCurrentDrawing
    \/ UndoSavedLabel
    \/ hoverTimers = MaxHoverTimers /\ hoverTimeout

SpecSession == Init /\ [][NextSession]_vars

\* the millisecond clock advances
tick ==
    /\ now < MaxNow
    /\ now' = now + 1
    /\ UNCHANGED <<stVars, drawVars, hoverVars, meshVars, visVars, autoVars, listVars, obsVars, otherVars>>

\* labels created by a finished drawing and by committed auto-label candidates as the clock
\* advances; the 150 ms debounce of a click made at time 0 ends after the clock has advanced
NextIds ==
    \/ onLoadMesh
    \/ ~camera /\ setCamera
    \/ ~canvasElement /\ setCanvasElement(TRUE)
    \/ AnimationFrame
    \/ tick
    \/ \E c \in OneClick : now = 0 /\ ~isDrawing /\ autoLabel3D(c.worldPoint, c.pos)
    \/ \E t \in timers : now > 0 /\ debounceTimerFires(t)
    \/ \E r \in inferInFlight : inferResponse(r, <<Triangle>>)
    \/ ~isDrawing /\ labelPoints3D = <<>> /\ startPolygonDrawing
    \/ addPointToPolygon(Pt(0, 0))
    \/ \E polygonType \in {NONE, AUTO_LABEL} : finishPolygonDrawing(FALSE, polygonType)
    \/ hoverTimeout

SpecIds == Init /\ [][NextIds]_vars

\* the hook disposed while an auto-label click is in its debounce or its inference request
\* is in flight; nothing is called on the hook after dispose
Disposed == lastCall.op = "dispose"

disposeHook ==
    /\ disposeCall
    /\ lastCall' = [op |-> "dispose", returned |-> "undefined", moving |-> FALSE]

NextTeardown ==
    \/ ~Disposed /\ onLoadMesh
    \/ ~Disposed /\ ~camera /\ setCamera
    \/ ~Disposed /\ ~canvasElement /\ setCanvasElement(TRUE)
    \/ AnimationFrame
    \/ \E c \in AutoClicks : ~Disposed /\ autoLabel3D(c.worldPoint, c.pos)
    \/ \E t \in timers : debounceTimerFires(t)
    \/ \E r \in inferInFlight, contours \in CandidateSets : inferResponse(r, contours)
    \/ ~Disposed /\ disposeHook

SpecTeardown == Init /\ [][NextTeardown]_vars

\* labels cleared while the vertex-membership worker still owes replies
Cleared == lastCall.op = "clearAllLabels3D"

NextClear ==
    \/ onLoadMesh
    \/ AnimationFrame
    \/ \E isShowLabel \in BOOLEAN : setLabelVisibility(isShowLabel, FALSE)
    \/ \E list \in {<<LabelA>>, <<LabelA, LabelB>>} : ~Cleared /\ updateRefInParent(list)
    \/ labelWorkerReply
    \/ clearAllLabels3D

SpecClear == Init /\ [][NextClear]_vars

\* points added to a drawing while the labels stay visible, redraws queued by the points and
\* redraws made directly by the visibility wrapper; lastCall tells whether a full redraw has
\* executed since the latest point was added
PointPending == [op |-> "addPointToPolygon", returned |-> "pending", moving |-> FALSE]
PointDrawn == [op |-> "addPointToPolygon", returned |-> "drawn", moving |-> FALSE]

AfterRedraw(executed) == IF executed /\ lastCall = PointPending THEN PointDrawn ELSE lastCall

addVisiblePoint(worldPoint) ==
    /\ labelsVisible
    /\ showLabel
    /\ addPointToPolygonCall(worldPoint)
    /\ lastCall' = PointPending

\* the watcher of [isLabelMode, showLabel, showMask] calls the wrapper with labels shown
showLabels ==
    /\ setLabelVisibilityCall(TRUE, FALSE)
    /\ lastCall' = AfterRedraw(meshLoaded /\ ~hasRedrawnThisRAF)

frame ==
    /\ AnimationFrameCall
    /\ lastCall' = AfterRedraw(redrawsInFrame' > 0 /\ meshLoaded /\ showLabel)

NextPoint ==
    \/ onLoadMesh
    \/ showLabels
    \/ ~isDrawing /\ startPolygonDrawing
    \/ \E worldPoint \in ClickPoints : addVisiblePoint(worldPoint)
    \/ frame

\* the browser runs every animation-frame callback that was requested
SpecPoint == Init /\ [][NextPoint]_vars /\ WF_vars(frame)

\* every operation
Next ==
    \/ onLoadMesh
    \/ ~camera /\ setCamera
    \/ ~canvasElement /\ setCanvasElement(TRUE)
    \/ AnimationFrame
    \/ \E isShowLabel \in BOOLEAN, isShowMask \in BOOLEAN : setLabelVisibility(isShowLabel, isShowMask)
    \/ labelWorkerReply
    \/ startPolygonDrawing
    \/ \E worldPoint \in ClickPoints : addPointToPolygon(worldPoint)
    \/ \E isSubtract \in BOOLEAN, polygonType \in {NONE, AUTO_LABEL} :
            finishPolygonDrawing(isSubtract, polygonType)
    \/ cancelCurrentDrawing
    \/ hoverTimeout
    \/ \E list \in ParentLists \cup {labelPoints3D} : updateRefInParent(list)
    \/ undoLatestShape3D
    \/ \E contours \in ContourSets : undoResponse(contours)
    \/ cancelAutoLabel
    \/ \E c \in AutoClicks : autoLabel3D(c.worldPoint, c.pos)
    \/ \E t \in timers : debounceTimerFires(t)
    \/ \E r \in inferInFlight, contours \in ContourSets : inferResponse(r, contours)
    \/ \E r \in inferInFlight : inferFailure(r)

Spec == Init /\ [][Next]_vars

\* ------------------------------------------------------------------ claims
\* world point -> normalized image point, in units of 1/NormDen
NormalizedOf(p) ==
    Pt(((p.x - BBoxMin) * NormDen) \div (BBoxMax - BBoxMin),
       ((BBoxMax - p.y) * NormDen) \div (BBoxMax - BBoxMin))

\* C1: a manual finishPolygonDrawing on a drawing with fewer than 3 points appends no label
\* and keeps the drawing; with 3 or more points it appends exactly one label whose points are
\* the drawn world points converted to normalized image coordinates, in insertion order.
C1_FinishAppendsOneLabel ==
    [][\A isSubtract \in BOOLEAN :
         (finishPolygonDrawing(isSubtract, NONE) /\ isDrawing /\ currentPoints.some) =>
            IF Len(currentPoints.v) < 3
              THEN UNCHANGED <<labelPoints3D, currentPoints, isDrawing>>
              ELSE /\ Len(labelPoints3D') = Len(labelPoints3D) + 1
                   /\ SubSeq(labelPoints3D', 1, Len(labelPoints3D)) = labelPoints3D
                   /\ labelPoints3D'[Len(labelPoints3D')].points =
                        [i \in 1..Len(currentPoints.v) |-> NormalizedOf(currentPoints.v[i])]]_vars

\* C1 witness: the drawing (-1,-1), (1,0), (-1,-1) was finished into one label
C1_Witness ==
    /\ ~isDrawing
    /\ Len(labelPoints3D) = 1
    /\ labelPoints3D[1].worldPositions = Some(<<Pt(-1, -1), Pt(1, 0), Pt(-1, -1)>>)
    /\ labelPoints3D[1].points = <<Pt(1, 3), Pt(3, 2), Pt(1, 3)>>

\* C2: undoLatestShape3D in the idle state removes the last saved label B, emits its deletion
\* and makes B's points the active drawing (isDrawing, currentPoints holding as many points
\* as B); an undo on that drawing removes exactly one point and leaves the saved list alone.
C2_UndoReopensLastShape ==
    [][/\ UndoSavedLabel =>
            LET B == savedLabelPoints[Len(savedLabelPoints)]
            IN  /\ savedLabelPoints' = SubSeq(savedLabelPoints, 1, Len(savedLabelPoints) - 1)
                /\ emitted' = Some(B)
                /\ isDrawing'
                /\ currentPoints'.some
                /\ Len(currentPoints'.v) = Len(B.points)
       /\ UndoPoint =>
            /\ currentPoints.some
            /\ Len(currentPoints.v) > 0
            /\ Len(currentPoints'.v) = Len(currentPoints.v) - 1
            /\ savedLabelPoints' = savedLabelPoints]_vars

\* C3: an autoLabel3D call followed by another call while its debounce timer is pending never
\* runs: it issues no inference call and its promise never resolves; every inference call
\* issued belongs to a call that was not superseded, is issued once, and carries that call's
\* point (as image coordinates) and polarity.
C3_DebounceKeepsLastCall ==
    /\ superseded \cap performed = {}
    /\ superseded \cap resolvedCalls = {}
    /\ \A t \in timers : t.id \notin superseded
    /\ {inferCalls[i].id : i \in 1..Len(inferCalls)} = performed
    /\ \A i \in 1..Len(inferCalls) :
         /\ inferCalls[i].id \notin superseded
         /\ inferCalls[i].pos = callArgs[inferCalls[i].id].pos
         /\ Pt(inferCalls[i].x, inferCalls[i].y) = NormalizedOf(callArgs[inferCalls[i].id].worldPoint)
         /\ \A j \in 1..Len(inferCalls) : inferCalls[j].id = inferCalls[i].id => j = i

\* C3 witness: two calls, the first superseded, one inference call with the second call's arguments
C3_Witness ==
    /\ callCount = 2
    /\ superseded = {1}
    /\ Len(inferCalls) = 1
    /\ inferCalls[1].id = 2
    /\ callArgs[1] # callArgs[2]
    /\ resolvedCalls = {2}

\* C4: the response of an inference call whose controller was aborted is never applied to the
\* candidate cache.
C4_CancelledResponseNotApplied ==
    [][\A r \in inferInFlight : \A contours \in ContourSets :
         (inferResponse(r, contours) /\ r.id \in aborted) => cacheAutoLabel' = cacheAutoLabel]_vars

\* C5: finishPolygonDrawing with AUTO_LABEL while isAutoLabeling appends every candidate to the
\* label list in order, empties the candidate cache and the marks, clears isAutoLabeling and
\* calls finishAutoLabel exactly once.
C5_FinishCommitsCandidates ==
    [][\A isSubtract \in BOOLEAN :
         \/ /\ labelPoints3D' = labelPoints3D \o cacheAutoLabel
            /\ cacheAutoLabel' = <<>>
            /\ autoLabelMarkLines' = <<>>
            /\ ~isAutoLabeling'
            /\ finishAutoLabelCalls' = finishAutoLabelCalls + 1
         \/ ~(isAutoLabeling /\ finishPolygonDrawing(isSubtract, AUTO_LABEL))]_vars

\* C5 witness: two candidates were committed, in order, by one finish
C5_Witness ==
    /\ finishAutoLabelCalls = 1
    /\ ~isAutoLabeling
    /\ cacheAutoLabel = <<>>
    /\ autoLabelMarkLines = <<>>
    /\ Len(inferCalls) >= 1
    /\ Len(labelPoints3D) = 2
    /\ SameObject(labelPoints3D[1], NewLabels(<<Ragged, Triangle>>)[1])
    /\ SameObject(labelPoints3D[2], NewLabels(<<Ragged, Triangle>>)[2])

\* C6: after cancelAutoLabel or cancelCurrentDrawing while candidates exist, the candidate
\* cache is empty and no candidate was appended to the label list.
C6_CancelDiscardsCandidates ==
    [][((cancelAutoLabel \/ cancelCurrentDrawing) /\ cacheAutoLabel # <<>>) =>
            /\ cacheAutoLabel' = <<>>
            /\ labelPoints3D' = labelPoints3D]_vars

C8_FailureLeavesStateUnchanged ==
    [][\A r \in inferInFlight :
         (inferFailure(r) /\ click.quiet /\ click.id = r.id) =>
            /\ cacheAutoLabel' = click.cache
            /\ labelPoints3D' = click.labels
            /\ autoLabelMarkLines' = click.marks
            /\ isAutoLabeling' = click.isAutoLabeling]_vars

\* C9: every vertex-membership reply resolves the promise registered under the reply's reqId,
\* with the indices of that request's polygon; no promise is resolved twice and a promise stays
\* pending exactly while its reply is outstanding.
C9_ReplyResolvesOwnPromise ==
    /\ \A i \in 1..Len(workerResolved) :
         /\ workerResolved[i].promise = workerResolved[i].reply
         /\ workerResolved[i].type = "VERTICES_READY" =>
              workerResolved[i].indices = WorkerVertices(workerResolved[i].polygon)
         /\ \A j \in 1..Len(workerResolved) :
              workerResolved[j].promise = workerResolved[i].promise => j = i
    /\ {c.reqId : c \in pendingWorkerPromises} = {m.reqId : m \in workerMsgs}

\* C9 witness: two requests in flight were answered out of order
C9_Witness ==
    /\ Len(workerResolved) = 2
    /\ workerResolved[1].reply = 2
    /\ workerResolved[1].type = "VERTICES_READY"
    /\ workerResolved[1].indices # {}
    /\ workerResolved[2].reply = 1

\* C10: when the worker answers a request with ERROR, the vertices inside the request's polygon
\* are coloured all the same when the awaiting redraw continues.
C10_ErrorFallsBackToScan ==
    [][\A m \in workerMsgs :
         WorkerReply(m, "ERROR") =>
            \A c \in pendingWorkerPromises :
                (c.reqId = m.reqId /\ ~c.isSubtract) =>
                    getVerticesInPolygonOptimized(c.polygon) \subseteq affectedVertices']_vars

\* C11: a mesh-worker message whose reqId is not the latest request id is discarded: it changes
\* neither isProcessing nor currentProgress and settles no request promise.
C11_OutdatedMessageDiscarded ==
    [][\A job \in meshWorkerJobs : \A type \in MessageTypes :
         \/ UNCHANGED <<isProcessing, currentProgress, promises, dataResolve, dataReject>>
         \/ ~(job.reqId # latestReqId /\ workerMessage(job, type))]_vars

\* C11 witness: the completion of request 1 arrived while request 2 was the latest and
\* processing; request 2 is still processing, at progress 0, with its promise pending
C11_Witness ==
    /\ lastDelivered = [reqId |-> 1, type |-> "MESH_DATA_COMPLETE", latest |-> 2]
    /\ isProcessing
    /\ currentProgress.progress = 0
    /\ promises = <<"rejected", "pending">>

\* the animation-frame callbacks of processRenderQueue that are registered and have not run
PendingCallbacks == Cardinality({i \in 1..Len(rafQueue) : rafQueue[i] = "processRenderQueue"})

IsPrefix(a, b) == Len(a) <= Len(b) /\ SubSeq(b, 1, Len(a)) = a

\* C12 (as stated): every task passed to addRenderTask before the scheduled animation-frame
\* callback fires is executed in that callback, in the order added and exactly once; at most
\* one such callback is pending at any time.
C12_EveryBatchRuns ==
    /\ [](PendingCallbacks <= 1 /\ (renderQueue # <<>> => PendingCallbacks = 1))
    /\ [][/\ \/ (IsPrefix(renderQueue, renderQueue') /\ executedTasks' = executedTasks)
              \/ AnimationFrame
           /\ \/ (executedTasks' = renderQueue /\ renderQueue' = <<>>)
              \/ ~(PendingCallbacks = 1 /\ AnimationFrame)]_vars

\* C12 (amended): when labels are visible as the scheduled animation-frame callback fires,
\* every task passed to addRenderTask before it fires is executed in that callback, in the
\* order added and exactly once (tasks leave the queue only there, all at once); at most one
\* such callback is pending at any time, and one is pending whenever a task is queued.
C12_VisibleBatchRunsOnceInOrder ==
    /\ [](PendingCallbacks <= 1 /\ (renderQueue # <<>> => PendingCallbacks = 1))
    /\ [][/\ \/ (IsPrefix(renderQueue, renderQueue') /\ executedTasks' = executedTasks)
              \/ AnimationFrame
           /\ \/ (executedTasks' = renderQueue /\ renderQueue' = <<>>)
              \/ ~(PendingCallbacks = 1 /\ labelsVisible /\ AnimationFrame)]_vars

\* C12 witness: two different marks were queued before one frame and that frame executed
\* both, in the order queued
C12_Witness ==
    /\ executedTasks = <<MarkTask(Pt(-1, -1), Positive), MarkTask(Pt(1, 0), Negative)>>
    /\ Len(autoLabelMarkLines) = 2
    /\ autoLabelMarkLines[1].pos = Positive
    /\ renderQueue = <<>>
    /\ ~isRendering

\* C13 (as stated): if labels are invisible when the animation-frame callback fires, no queued
\* render task is executed in that frame and the queue is left empty; every visibility toggle
\* that changes the visibility requests a texture upload.
C13_EveryToggleUploads ==
    /\ [][\/ (executedTasks' = <<>> /\ renderQueue' = <<>>)
           \/ ~(PendingCallbacks = 1 /\ ~labelsVisible /\ AnimationFrame)]_vars
    /\ [](lastToggle.changed => lastToggle.upload)

\* C13 (amended): if labels are invisible when the animation-frame callback fires, no queued
\* render task is executed in that frame and the queue is left empty; every visibility toggle
\* that changes the visibility while the surface canvas exists requests a texture upload.
C13_InvisibleBatchDropped ==
    /\ [][\/ (executedTasks' = <<>> /\ renderQueue' = <<>>)
           \/ ~(PendingCallbacks = 1 /\ ~labelsVisible /\ AnimationFrame)]_vars
    /\ [](lastToggle.changed /\ lastToggle.surface => lastToggle.upload)

\* C13 witness: labels were toggled invisible on the loaded surface (an upload was requested),
\* and the mark task queued for an auto-label click was dropped by a frame: nothing executed,
\* the queue is empty and no mark was recorded
C13_Witness ==
    /\ ~labelsVisible
    /\ lastToggle = [changed |-> TRUE, surface |-> TRUE, upload |-> TRUE]
    /\ Len(inferCalls) = 1
    /\ executedTasks = <<>>
    /\ renderQueue = <<>>
    /\ ~isRendering
    /\ autoLabelMarkLines = <<>>

TouchedByFirstCall ==
    affectedVertices \cup UNION {workerResolved[i].indices :
                                    i \in {j \in 1..Len(workerResolved) : ~workerResolved[j].isSubtract}}

C16_AffectedCoversChanged ==
    (meshLoaded /\ originalColors.some) =>
        /\ \A v \in Vertices : colors[v] # originalColors.v[v] => v \in affectedVertices
        /\ resetAllVertexColors(CurSt).colors = originalColors.v
        /\ resetAllVertexColors(CurSt).aff = {}

\* a step in which the body of redrawAllLabelsOnSurface colours the labels
RedrawColoursLabels ==
    /\ meshLoaded
    /\ showLabel' \/ showMask'
    /\ \/ redrawsSinceFrame' = redrawsSinceFrame + 1
       \/ AnimationFrame /\ redrawsInFrame' >= 1

\* the vertex caches that such a redraw uses
UsedCaches == {renderLabelPoints(CurEnv)[i] : i \in {j \in 1..Len(renderLabelPoints(CurEnv)) :
                                                     renderLabelPoints(CurEnv)[j].vertexCache.some}}

\* C17: whenever the colouring engine uses a vertexCache, the cache equals the vertex
\* membership of the label's current world polygon (under the current calibration)
\* against the current mesh.
C17_UsedCacheIsCurrent ==
    [][RedrawColoursLabels =>
         \A label \in UsedCaches :
             label.vertexCache.v = getVerticesInPolygonOptimized(WorldPositionsOf(label.points))]_vars

\* C20: across setCamera, setupCameraMovementDetection and dispose calls at most one
\* camera-movement sampler loop is scheduled at any time; after dispose (until a sampler is
\* set up again) no sampler callback is scheduled, so none runs, and isCameraMoving is false.
C20_OneSamplerLoop ==
    /\ Cardinality(monitorFrames) <= 1
    /\ cameraMovementFrameId # NoHandle => monitorFrames = {cameraMovementFrameId}
    /\ ~lastCameraPosition.some => (monitorFrames = {} /\ cameraMovementFrameId = NoHandle /\ ~isCameraMoving)

\* disposed after the sampler saw the camera move
C20_Witness == camera /\ cameraPosition # 0 /\ ~lastCameraPosition.some /\ monitorFrames = {}

\* C18: after a finishPolygonDrawing that creates a label and after a cancelCurrentDrawing,
\* hover stays disabled (hoverDisabled true, no label hovered) until 100 ms have passed
\* since that call, that is while a 100 ms timeout of such a call is still pending.
C18_HoverDisabledDuringGrace ==
    hoverTimers > 0 => (hoverDisabled /\ hoveredLabelIndex = -1 /\ ~isHovering)

\* a call of one of the raycast handlers
RaycastHandlerCall ==
    \E hit \in RayHits :
        \/ handleMouseEventWithRaycast(hit)
        \/ updatePreviewLineWithRaycast(hit)
        \/ \E polygonType \in {NONE, AUTO_LABEL} : handleClickWithRaycast(hit, polygonType, "left")

\* C19: while isCameraMoving is true, handleClickWithRaycast, handleMouseEventWithRaycast,
\* updatePreviewLineWithRaycast and performEnhancedRaycast are no-ops: the click handler
\* returns false, the mouse handler and the raycast return null (the preview handler returns
\* nothing), and the drawing state, the hover state, the auto-label state, the label lists,
\* the render state and the inference calls stay as they are.
C19_NoOpWhileCameraMoves ==
    /\ [](isCameraMoving => \A hit \in RayHits : performEnhancedRaycast(hit) = NoPoint)
    /\ [][~isCameraMoving \/ ~RaycastHandlerCall
            \/ /\ UNCHANGED <<drawVars, hoverVars, autoVars, listVars, stVars, lastMouseIntersection,
                               pendingHoverRender, pendingPreviewRender, inferCalls, callArgs>>
               /\ lastCall'.returned \in {"false", "null", "undefined"}
               /\ lastCall'.op = "handleClickWithRaycast" => lastCall'.returned = "false"
               /\ lastCall'.op = "handleMouseEventWithRaycast" => lastCall'.returned = "null"]_vars

\* a click while the camera moves, in the middle of a drawing with a ray that hits the mesh
C19_Witness ==
    /\ isCameraMoving
    /\ lastCall = [op |-> "handleClickWithRaycast", returned |-> "false", moving |-> TRUE]
    /\ isDrawing
    /\ lastMouseIntersection.some

\* C21: a step of dispose leaves no vertex-membership request pending and no message for the
\* worker to answer; every request pending before it has been resolved with no indices
C21_DisposeSettlesRequests ==
    [][~dispose \/
       (/\ pendingWorkerPromises' = {}
        /\ workerMsgs' = {}
        /\ \A c \in pendingWorkerPromises :
              \E i \in 1..Len(workerResolved') :
                  workerResolved'[i].promise = c.reqId /\ workerResolved'[i].indices = {})]_vars

\* a call of the host's finish while a manual drawing has fewer than 3 points
ShortFinish ==
    /\ isDrawing
    /\ currentPoints.some
    /\ Len(currentPoints.v) < 3
    /\ finishCurrentDrawing(FALSE, NONE)

RightClickOnSurface ==
    \E hit \in RayHits :
        /\ ~isCameraMoving
        /\ MouseEvent(CurHover, hit).point.some
        /\ handle3DInteractionRight(hit, FALSE)

\* C23: a right-click while drawing with fewer than 3 points empties currentPoints, ends the
\* drawing and adds no label; with 3 or more points it appends exactly one label, made of the
\* drawn points, to the label list, empties currentPoints and ends the drawing
C23_RightClickCancelsOrCloses ==
    [][~(isDrawing /\ currentPoints.some) \/ ~RightClickOnSurface \/
       (/\ ~isDrawing'
        /\ currentPoints' = Some(<<>>)
        /\ previewPoints' = <<>>
        /\ IF Len(currentPoints.v) < 3
             THEN labelPoints3D' = labelPoints3D
             ELSE /\ Len(labelPoints3D') = Len(labelPoints3D) + 1
                  /\ SubSeq(labelPoints3D', 1, Len(labelPoints3D)) = labelPoints3D
                  /\ labelPoints3D'[Len(labelPoints3D')].worldPositions = Some(currentPoints.v)
                  /\ labelPoints3D'[Len(labelPoints3D')].points = worldPointToImageCoords(currentPoints.v)
                  /\ ~labelPoints3D'[Len(labelPoints3D')].isAutoLabel)]_vars

C23_Witness ==
    /\ lastCall.op = "handleRightClick"
    /\ lastCall.returned = "false"
    /\ ~isDrawing
    /\ hoverDisabled
    /\ Len(labelPoints3D) = 1
    /\ Len(labelPoints3D[1].points) = 3

\* C24: when the answer to an undo made while auto-labeling carries no contours, isAutoLabeling
\* is false, the candidate cache is empty and no auto-label mark remains
C24_EmptyUndoResetsAutoLabel ==
    [][~undoResponse(<<>>) \/
       (~isAutoLabeling' /\ cacheAutoLabel' = <<>> /\ autoLabelMarkLines' = <<>>)]_vars

\* world points on and around the mesh, and canvas points of the surface
WorldGrid == {Pt(x, y) : x \in (BBoxMin - 1)..(BBoxMax + 1), y \in (BBoxMin - 1)..(BBoxMax + 1)}
CanvasCorners == {Pt(x, y) : x \in {0, CanvasMax}, y \in {0, CanvasMax}}

\* C25: worldToCanvasCoords, canvasCoordsToWorld, imageCoordinatesToCanvasCoords and
\* performEnhancedRaycast return null in every state in which one of the refs they read (mesh,
\* bounding box, surface canvas, camera, canvas element) is not set: before the mesh is loaded,
\* before the camera and the canvas element are attached, and after dispose
C25_NullWhenNotReady ==
    /\ (~mesh \/ ~boundingBox) =>
            \A p \in WorldGrid, returnType \in {"canvas", "normalized", "imageCoords"} :
                worldToCanvasCoords(p, returnType) = NoPoint
    /\ (~surfaceCanvas \/ ~camera \/ ~canvasElement) =>
            \A p \in WorldGrid : worldToCanvasCoords(p, "canvas") = NoPoint
    /\ (~mesh \/ ~boundingBox \/ ~surfaceCanvas) =>
            \A c \in CanvasCorners : canvasCoordsToWorld(c) = NoPoint
    /\ ~surfaceCanvas =>
            \A p \in {Pt(0, 0), Pt(NormDen, NormDen)} : imageCoordinatesToCanvasCoords(p) = NoPoint
    /\ (~camera \/ ~canvasElement \/ ~mesh) =>
            \A hit \in RayHits : performEnhancedRaycast(hit) = NoPoint

\* C25 witness: after dispose, the camera still attached: the bounding box, the surface canvas
\* and the canvas element are cleared, the mesh is not
C25_Witness ==
    /\ mesh
    /\ ~boundingBox
    /\ ~surfaceCanvas
    /\ camera
    /\ ~canvasElement
    /\ ~lastCameraPosition.some

\* an answered point-in-polygon test on a shape of the given kind
Tested(shape) ==
    /\ lastCall.op \in {"isPointInPolygonOptimized", "pointInPoly"}
    /\ lastCall.returned # "pending"
    /\ lastCall.shape = shape

InsideSquare(p, sq) ==
    /\ sq.x0 < p.x /\ p.x < sq.x0 + sq.side
    /\ sq.y0 < p.y /\ p.y < sq.y0 + sq.side

OutsideSquare(p, sq) ==
    \/ p.x < sq.x0 \/ p.x > sq.x0 + sq.side
    \/ p.y < sq.y0 \/ p.y > sq.y0 + sq.side

\* C26: for an axis-aligned square, whatever its orientation and first vertex, the main-thread
\* test and the worker's test answer true for a point strictly inside and false for a point
\* strictly outside
C26_SquareInsideOutside ==
    Tested("square") =>
        /\ InsideSquare(lastCall.point, lastCall.of) => lastCall.returned = "true"
        /\ OutsideSquare(lastCall.point, lastCall.of) => lastCall.returned = "false"

C26_Witness ==
    /\ Tested("square")
    /\ lastCall.op = "pointInPoly"
    /\ lastCall.polygon = <<Pt(0, 2), Pt(2, 2), Pt(2, 0), Pt(0, 0)>>
    /\ lastCall.point = Pt(1, 1)
    /\ lastCall.returned = "true"

\* the two lobes of a figure-eight, each named by the direction it extends from the crossing
Lobes(e) == IF e.upright THEN {Pt(0, 1), Pt(0, -1)} ELSE {Pt(1, 0), Pt(-1, 0)}

Along(p, e, d) == (p.x - e.cx) * d.x + (p.y - e.cy) * d.y
Across(p, e, d) == (p.x - e.cx) * d.y - (p.y - e.cy) * d.x
InsideLobe(p, e, d) ==
    /\ 0 < Along(p, e, d) /\ Along(p, e, d) < e.half
    /\ Abs(Across(p, e, d)) < Along(p, e, d)

OnOrInsideLobe(p, e, d) ==
    /\ 0 <= Along(p, e, d) /\ Along(p, e, d) <= e.half
    /\ Abs(Across(p, e, d)) <= Along(p, e, d)

\* the image of p in the other lobe
MirrorPoint(p, e) == Pt(2 * e.cx - p.x, 2 * e.cy - p.y)

TestedEight == Tested("eight") /\ lastCall.op = "isPointInPolygonOptimized"

\* C27 (as stated): for a figure-eight, isPointInPolygonOptimized classifies the two lobes
\* differently: a point strictly inside one lobe and its image in the other lobe never get the
\* same answer
C27_LobesClassifiedDifferently ==
    TestedEight =>
        \A d \in Lobes(lastCall.of) :
            InsideLobe(lastCall.point, lastCall.of, d) =>
                lastCall.returned #
                    Answer(isPointInPolygonOptimized(MirrorPoint(lastCall.point, lastCall.of), lastCall.polygon))

\* C27 (amended): for a figure-eight, isPointInPolygonOptimized answers true for a point
\* strictly inside either lobe, whatever the lobe's winding, and false for a point outside both
C27_BothLobesInside ==
    TestedEight =>
        /\ (\E d \in Lobes(lastCall.of) : InsideLobe(lastCall.point, lastCall.of, d))
                => lastCall.returned = "true"
        /\ (\A d \in Lobes(lastCall.of) : ~OnOrInsideLobe(lastCall.point, lastCall.of, d))
                => lastCall.returned = "false"

\* a point of one lobe was tested, and the lobes wind in opposite directions
C27_Witness ==
    /\ TestedEight
    /\ lastCall.polygon = <<Pt(-2, -2), Pt(2, 2), Pt(2, -2), Pt(-2, 2)>>
    /\ lastCall.point = Pt(-1, 0)
    /\ WindingNumber(Pt(-1, 0), lastCall.polygon, 1) = -1
    /\ WindingNumber(Pt(1, 0), lastCall.polygon, 1) = 1
    /\ lastCall.returned = "true"

IdentityCalibration(c) ==
    ~c.enabled \/ (c.offsetX = 0 /\ c.offsetY = 0 /\ c.scaleX = 1 /\ c.scaleY = 1)

\* 2 * |x| <= objSize, the extent of the scaled bounding box about the origin
WithinExtents(p) ==
    /\ 2 * Abs(p.x) <= ObjSize
    /\ 2 * Abs(p.y) <= ObjSize

RoundTrip ==
    /\ lastCall.op = "canvasCoordsToWorld"
    /\ lastCall.loaded
    /\ IdentityCalibration(lastCall.calibration)
    /\ WithinExtents(lastCall.point)

NormalizedOrigin ==
    /\ lastCall.op = "worldToCanvasCoords"
    /\ lastCall.loaded
    /\ lastCall.point = Pt(0, 0)

\* C28 (as stated): with the calibration at identity and the mesh loaded, converting a world
\* point within the extents to canvas coordinates and back gives its x and y again, and the
\* origin has the normalized coordinates (0.5, 0.5)
C28_RoundTripOnceLoaded ==
    /\ RoundTrip => lastCall.world = Some(lastCall.point)
    /\ NormalizedOrigin => lastCall.canvas = Some(Pt(NormDen \div 2, NormDen \div 2))

\* C28 (amended): the round trip gives the point again once the camera and the canvas element
\* are attached as well; before that the conversion to canvas coordinates returns null; the
\* origin has the normalized coordinates (0.5, 0.5) as soon as the mesh is loaded
C28_RoundTripOnceAttached ==
    /\ RoundTrip =>
           IF lastCall.attached THEN lastCall.world = Some(lastCall.point)
           ELSE lastCall.canvas = NoPoint /\ lastCall.returned = "throws"
    /\ NormalizedOrigin => lastCall.canvas = Some(Pt(NormDen \div 2, NormDen \div 2))

C28_Witness ==
    /\ RoundTrip
    /\ lastCall.attached
    /\ lastCall.point = Pt(BBoxMin, BBoxMax)
    /\ lastCall.canvas = Some(Pt(0, 0))
    /\ lastCall.world = Some(Pt(BBoxMin, BBoxMax))

\* closer than the merge threshold
Close(a, b) == ~DistSqAtLeastThreshold(a, b)

\* the kept point before position i, for a set K of kept positions that holds 1
KeptBefore(K, i) == CHOOSE k \in K : k < i /\ \A j \in K : j < i => j <= k

\* the positions kept when every point closer than the threshold to the previously kept point
\* is removed
KeptPositions(c) ==
    CHOOSE K \in SUBSET (1..Len(c)) :
        /\ Len(c) > 0 => 1 \in K
        /\ \A i \in 2..Len(c) : (i \in K) <=> ~Close(c[i], c[KeptBefore(K, i)])

RECURSIVE PointsAt(_, _, _)
PointsAt(c, K, i) ==
    IF i > Len(c) THEN <<>>
    ELSE (IF i \in K THEN <<c[i]>> ELSE <<>>) \o PointsAt(c, K, i + 1)

\* the points a candidate is to have for the contour c
Simplified(c) ==
    LET kept == PointsAt(c, KeptPositions(c), 1)
        open == IF Len(kept) >= 2 /\ Close(kept[Len(kept)], kept[1])
                  THEN SubSeq(kept, 1, Len(kept) - 1) ELSE kept
    IN  IF Len(open) < 3 THEN c ELSE open

RECURSIVE ExpectedCandidates(_, _)
ExpectedCandidates(contours, i) ==
    IF i > Len(contours) THEN <<>>
    ELSE (IF Len(contours[i]) < 3 THEN <<>> ELSE <<Simplified(contours[i])>>)
         \o ExpectedCandidates(contours, i + 1)

ResultApplied == lastCall.op = "handleAutoLabelResult" /\ lastCall.returned = "undefined"

\* C29: the candidates of an inference result are, in the order of the contours of at least 3
\* points, the contour's points without the points closer than the threshold to the previously
\* kept point and without a final point closer than the threshold to the first, or the contour
\* as returned when fewer than 3 points remain; every candidate has at least 3 points, and a
\* single triangle gives one candidate with its 3 points in order
C29_CandidatesAreSimplifiedContours ==
    ResultApplied =>
        /\ Len(cacheAutoLabel) = Len(ExpectedCandidates(lastCall.contours, 1))
        /\ \A i \in 1..Len(cacheAutoLabel) :
               /\ cacheAutoLabel[i].points = ExpectedCandidates(lastCall.contours, 1)[i]
               /\ Len(cacheAutoLabel[i].points) >= 3
        /\ lastCall.contours = <<Triangle>> =>
               Len(cacheAutoLabel) = 1 /\ cacheAutoLabel[1].points = Triangle

\* a duplicate and a closing point were removed from the first contour
C29_Witness ==
    /\ ResultApplied
    /\ lastCall.contours = <<<<Pt(0, 0), Pt(0, 0), Pt(NormDen, 0), Pt(0, NormDen), Pt(0, 0)>>, Triangle>>
    /\ Len(cacheAutoLabel) = 2
    /\ cacheAutoLabel[1].points = <<Pt(0, 0), Pt(NormDen, 0), Pt(0, NormDen)>>
    /\ cacheAutoLabel[2].points = Triangle

UndoWhileDrawing ==
    /\ isDrawing
    /\ currentPoints.some
    /\ Len(currentPoints.v) > 0
    /\ undoLatestShape3D

\* C30: undoLatestShape3D during a drawing removes exactly the last point of currentPoints,
\* leaves the saved labels, the candidates and the auto-label state as they are and asks the
\* inference service nothing; when no point is left the drawing is cancelled (isDrawing false,
\* previewPoints empty), otherwise it goes on
C30_UndoPopsLastPoint ==
    [][~(isDrawing /\ currentPoints.some /\ Len(currentPoints.v) > 0) \/ ~UndoWhileDrawing
       \/ /\ currentPoints' = Some(SubSeq(currentPoints.v, 1, Len(currentPoints.v) - 1))
          /\ UNCHANGED <<labelPoints3D, savedLabelPoints, cacheAutoLabel, autoVars, autoLabelMarkLines,
                         inferCalls, emitted>>
          /\ IF Len(currentPoints.v) = 1 THEN ~isDrawing' /\ previewPoints' = <<>>
             ELSE isDrawing' /\ UNCHANGED previewPoints]_vars

\* the undo of the only point of a draft cancelled the drawing (nothing else ends a drawing
\* here) while candidates were pending
C30_Witness ==
    /\ ~isDrawing
    /\ currentPoints = Some(<<>>)
    /\ hoverDisabled
    /\ hoverTimers > 0
    /\ isAutoLabeling
    /\ Len(cacheAutoLabel) = 2
    /\ savedLabelPoints = <<LabelA>>

\* C31: while a manual drawing is in progress no inference call is issued and isAutoLabeling
\* does not become true, also when the drawing started while the debounce timer of an earlier
\* auto-label click was pending
C31_NoAutoLabelWhileDrawing ==
    [][(inferCalls' = inferCalls /\ (isAutoLabeling' => isAutoLabeling)) \/ ~(isDrawing /\ isDrawing')]_vars

\* the mark of the i-th inference call: the point and the polarity of its click
MarkOfCall(i) == [worldPoint |-> callArgs[inferCalls[i].id].worldPoint, pos |-> inferCalls[i].pos]

RenderSettled == renderQueue = <<>> /\ rafQueue = <<>>

\* C32: every auto-label click that issued an inference call has appended exactly one mark, in
\* click order and with the polarity of the click: once the queued render tasks have run, and
\* with no undo and no clearing, the mark sequence is the sequence of the inference calls
C32_OneMarkPerInferenceCall ==
    RenderSettled =>
        /\ Len(autoLabelMarkLines) = Len(inferCalls)
        /\ \A i \in 1..Len(inferCalls) : autoLabelMarkLines[i] = MarkOfCall(i)

Baseline == originalColors.some /\ colors = originalColors.v /\ affectedVertices = {}

\* C33: after clearAllLabels3D, once every reply of the vertex-membership worker that was
\* outstanding has been delivered, every vertex has its baseline colour and affectedVertices is
\* empty
C33_ClearedMeshStaysBaseline ==
    (Cleared /\ workerMsgs = {} /\ pendingWorkerPromises = {}) => Baseline

HideLabels == meshLoaded /\ setLabelVisibility(FALSE, FALSE)

\* C34: a call of setLabelVisibility with showLabel and showMask both false resets the vertex
\* colours to the baseline as part of the call, whether or not a redraw was already requested
\* in the same animation frame
C34_HidingResetsColors ==
    [][(colors' = originalColors.v /\ affectedVertices' = {}) \/ ~HideLabels]_vars

\* C35: every point added by addPointToPolygon while the labels are visible is eventually
\* followed by a full redraw
C35_AddedPointIsRedrawn == (lastCall = PointPending) ~> (lastCall = PointDrawn)

\* C36: every promise returned by processMeshData, processTextureData or updateColors is
\* eventually settled
C36_EveryPromiseSettles ==
    \A reqId \in 1..MaxMeshReq :
        (reqId <= Len(promises) /\ promises[reqId] = "pending")
            ~> (reqId <= Len(promises) /\ promises[reqId] # "pending")

NoHover == hoveredLabelIndex = -1 /\ ~isHovering
MouseResolved ==
    \E hit \in RayHits : handleMouseEventWithRaycast(hit) /\ lastCall'.returned = "point"

\* C37: while a drawing is in progress or hover is disabled, no label is hovered
C37_NoHoverWhileDrawingOrDisabled == (isDrawing \/ hoverDisabled) => NoHover

\* C37, as the code has it: no label is hovered while hover is disabled, and none is left
\* hovered by a mouse point resolved while a drawing is in progress or hover is disabled
C37_NoHoverOnceMouseResolved ==
    /\ [](hoverDisabled => NoHover)
    /\ [][NoHover' \/ ~(isDrawing \/ hoverDisabled) \/ ~MouseResolved]_vars

C37_Witness ==
    /\ isDrawing
    /\ lastCall.op = "handleMouseEventWithRaycast"
    /\ lastCall.returned = "point"
    /\ lastMouseIntersection.some
    /\ getLabelAtPosition(lastMouseIntersection.v) >= 0
    /\ NoHover
    /\ renderQueue # <<>>

HasNoPoints(points) == ~points.some \/ points.v = <<>>

\* C38: when no drawing is in progress, currentPoints and previewPoints hold no points, and
\* previewPoints holds 0 or 2 points in every state
C38_IdleSessionIsEmpty ==
    /\ Len(previewPoints) \in {0, 2}
    /\ ~isDrawing => (HasNoPoints(currentPoints) /\ previewPoints = <<>>)

\* C39: the labels created in one session have pairwise distinct ids
C39_LabelIdsDistinct ==
    \A i \in 1..Len(labelPoints3D), j \in 1..Len(labelPoints3D) :
        labelPoints3D[i].id = labelPoints3D[j].id => i = j

\* C40: once the hook is disposed no inference call is issued and the labeling state does not
\* change: no mark is added, the candidates and isAutoLabeling stay as they are
C40_NothingHappensAfterDispose ==
    [][(/\ inferCalls' = inferCalls
        /\ autoLabelMarkLines' = autoLabelMarkLines
        /\ cacheAutoLabel' = cacheAutoLabel
        /\ isAutoLabeling' = isAutoLabeling) \/ ~Disposed]_vars

=============================================================================
